---- MODULE Spec2Model ----
(***************************************************************************)
(* Verification model of the Zambretti forecasting engine                  *)
(* (custom_components/zambretti).                                          *)
(*                                                                         *)
(* Units.  Python floats are modelled by scaled integers:                  *)
(*   angles            in hundredths of a degree   (270.00 deg = 27000)    *)
(*   pressure slopes   in hundredths of a hPa/hr   (-0.80      = -80)      *)
(*   wind speeds       in knots                                            *)
(*   alert levels      in tenths                   (5.1        = 51)       *)
(* A raw input value (a sensor state, a function argument) is a record     *)
(* [k, v]: k = "num" with the number v, k = "none" for Python's None and   *)
(* k = "str" for a string float() cannot parse ("unknown", "unavailable"). *)
(***************************************************************************)
EXTENDS Integers, Sequences, FiniteSets, TLC

\* lowIn, lowOut     estimate_low_properties: its arguments, its result
\* zfIn, zfOut       zambretti_forecast: its arguments, its result
\* fogIn, fogOut     determine_fog_chance: its arguments, its result
\* ptIn, ptOut       determine_pressure_trend: its inputs, its result
\* pc                Zambretti.async_update: where the update cycle stands
\* counter           Zambretti.counter, the "waiting for sensors" attempts
\* alert_level, t_alert_level, estimated_max_wind_speed
\*                   locals of async_update
\* seen              the alert level each analysis returned in this cycle
\* attributes        Zambretti._attributes (alert_level, alert, fully_started)
\* sensors_valid     whether all required sensors report a usable state
\* pending           the delayed re-checks of async_update (loop.call_later)
\*                   that are scheduled and have not fired yet
\* wdIn, wdOut       determine_wind_direction: its arguments, its result
\* entities          hass.data[DOMAIN]["entities"], the sensors in the order
\*                   they were created
\* loaded            the sensors of the config entries that are set up now
\* created           the number of sensors created so far
\* service_registered  hass.data[DOMAIN]["service_registered"]
\* targets           the sensors the last force_update call ran async_update on
VARIABLES lowIn, lowOut, zfIn, zfOut, fogIn, fogOut, ptIn, ptOut, pc, counter, alert_level, t_alert_level, estimated_max_wind_speed, seen, attributes, sensors_valid, pending, wdIn, wdOut, entities, loaded, created, service_registered, targets

lowVars == <<lowIn, lowOut>>
zfVars == <<zfIn, zfOut>>
fogVars == <<fogIn, fogOut>>
ptVars == <<ptIn, ptOut>>
updVars == <<pc, counter, alert_level, t_alert_level, estimated_max_wind_speed, seen, attributes>>
schedVars == <<sensors_valid, pending>>
wdVars == <<wdIn, wdOut>>
entVars == <<entities, loaded, created, service_registered, targets>>
vars == <<lowVars, zfVars, fogVars, ptVars, updVars, schedVars, wdVars, entVars>>

None == [k |-> "none", v |-> 0]
Bad == [k |-> "str", v |-> 0]
Num(n) == [k |-> "num", v |-> n]
IsNone(x) == x.k = "none"

\* The result slot of a function that has not been called yet.
NotRun == [called |-> FALSE]

\* The state of a part of the program a specification leaves untouched.
NoAlerts == [temperature |-> 0, fog |-> 0, forecast |-> 0]
InitialAttributes == [alert_level |-> 0, alert |-> "None", fully_started |-> FALSE]
LowIdle == lowIn = NotRun /\ lowOut = NotRun
ForecastIdle == zfIn = NotRun /\ zfOut = NotRun
FogIdle == fogIn = NotRun /\ fogOut = NotRun
TrendIdle == ptIn = NotRun /\ ptOut = NotRun
UpdateIdle ==
    /\ pc = "idle" /\ counter = 0
    /\ alert_level = 0 /\ t_alert_level = 0 /\ estimated_max_wind_speed = 0
    /\ seen = NoAlerts
    /\ attributes = InitialAttributes

RecheckIdle == sensors_valid = FALSE /\ pending = 0
WindIdle == wdIn = NotRun /\ wdOut = NotRun
EntriesIdle ==
    /\ entities = <<>> /\ loaded = {} /\ created = 0
    /\ service_registered = FALSE /\ targets = <<>>

Abs(n) == IF n < 0 THEN 0 - n ELSE n
Max2(a, b) == IF a >= b THEN a ELSE b
Min2(a, b) == IF a <= b THEN a ELSE b

(***************************************************************************)
(* low_estimator.py                                                        *)
(***************************************************************************)

FullCircle == 36000

_safe_float(x) == IF x.k = "num" THEN x ELSE None

_clamp_deg(deg) == deg % FullCircle

Compass8 == <<"N", "NE", "E", "SE", "S", "SW", "W", "NW">>

_compass_8(deg) == Compass8[(((_clamp_deg(deg) + 2250) \div 4500) % 8) + 1]

\* round(x, 1) on hundredths: the nearest tenth (the inputs of the model
\* never sit on a tie, where the float's binary expansion would decide).
Round1(c) == ((c + 5) \div 10) * 10

\* The parseable values of a history, in order (the loop of _wind_delta_knots).
RECURSIVE ValidVals(_)
ValidVals(s) ==
    IF s = <<>> THEN <<>>
    ELSE IF _safe_float(Head(s)).k = "num"
         THEN <<Head(s).v>> \o ValidVals(Tail(s))
         ELSE ValidVals(Tail(s))

\* history: [k |-> "none"] (None), [k |-> "seq", v |-> <<raw values>>], or
\* [k |-> "scalar"] (not iterable: the TypeError branch).
_wind_delta_knots(history) ==
    IF history.k = "scalar" THEN None
    ELSE LET vals == ValidVals(IF history.k = "seq" THEN history.v ELSE <<>>)
         IN  IF Len(vals) < 2 THEN None
             ELSE Num(vals[Len(vals)] - vals[1])

_DISTANCE_ORDER == <<"Far", "Distant", "Approaching", "Near", "Very near", "Imminent">>

_DISTANCE_RANGE(dc) ==
    CASE dc = "Far" -> "1000-2000 km"
      [] dc = "Distant" -> "700-1000 km"
      [] dc = "Approaching" -> "400-700 km"
      [] dc = "Near" -> "200-400 km"
      [] dc = "Very near" -> "80-200 km"
      [] dc = "Imminent" -> "0-80 km"
      [] OTHER -> "Unknown"

\* _IMPACT_MAP.get(distance_class): <<bucket, range>>, <<>> for a missing key.
_IMPACT_MAP(dc) ==
    CASE dc = "Far" -> <<">24h", "> 24 hours">>
      [] dc = "Distant" -> <<"12-24h", "12-24 hours">>
      [] dc = "Approaching" -> <<"6-12h", "6-12 hours">>
      [] dc = "Near" -> <<"3-6h", "3-6 hours">>
      [] dc = "Very near" -> <<"<3h", "< 3 hours">>
      [] dc = "Imminent" -> <<"<3h", "< 3 hours">>
      [] OTHER -> <<>>

IndexOf(seq, x) == IF \E i \in 1..Len(seq) : seq[i] = x
                   THEN CHOOSE i \in 1..Len(seq) : seq[i] = x
                   ELSE 0

_shift_closer(distance_class, steps) ==
    LET i == IndexOf(_DISTANCE_ORDER, distance_class)
    IN  IF i = 0 THEN distance_class
        ELSE _DISTANCE_ORDER[Min2(Len(_DISTANCE_ORDER), i + steps)]

ConfScore(p) == CASE p = "low" -> 0 [] p = "medium" -> 1 [] p = "high" -> 2 [] OTHER -> 0
ConfInv(m) == CASE m = 0 -> "low" [] m = 1 -> "medium" [] OTHER -> "high"

\* Mutant: the best of the parts instead of the weakest.
CombineConfidenceMax(a, b, c) ==
    ConfInv(Max2(ConfScore(a), Max2(ConfScore(b), ConfScore(c))))

_combine_confidence(a, b, c) ==
    ConfInv(Min2(ConfScore(a), Min2(ConfScore(b), ConfScore(c))))

\* Python's `sub in wind_trend` over the six labels estimate_low_properties
\* assigns ("Stable/unknown", "Decreased a lot", "Decreased", "Stable",
\* "Increased", "Increased a lot").
InStr(sub, wind_trend) ==
    CASE sub = "Decreased" -> wind_trend \in {"Decreased", "Decreased a lot"}
      [] sub = "Stable" -> wind_trend \in {"Stable", "Stable/unknown"}
      [] sub = "Increased" -> wind_trend \in {"Increased", "Increased a lot"}
      [] sub = "Increasing" -> FALSE
      [] sub = "Increasing a lot" -> FALSE
      [] OTHER -> FALSE

_derive_weather_trend(distance_class, wind_trend) ==
    LET base == CASE distance_class \in {"Far", "Distant"} -> "Stable"
                  [] distance_class \in {"Approaching", "Near"} -> "Deteriorating"
                  [] distance_class \in {"Very near", "Imminent"} -> "Rapidly deteriorating"
                  [] OTHER -> "Stable"
    IN  IF InStr("Decreased", wind_trend)
           /\ distance_class \in {"Far", "Distant", "Approaching"}
        THEN "Improving"
        ELSE IF InStr("Increasing a lot", wind_trend) /\ base = "Stable"
        THEN "Deteriorating"
        ELSE IF InStr("Increasing a lot", wind_trend) /\ base = "Deteriorating"
        THEN "Rapidly deteriorating"
        ELSE base

\* wind_dir_delta_deg in whole degrees.
_derive_wind_rotation_likely(distance_class, wind_dir_delta_deg) ==
    IF IsNone(wind_dir_delta_deg) THEN "Unknown"
    ELSE LET d == wind_dir_delta_deg.v
             nearish == distance_class \in {"Approaching", "Near", "Very near", "Imminent"}
         IN  IF Abs(d) < 3 THEN "No significant change"
             ELSE IF Abs(d) < 10
                  THEN (IF d > 0 THEN "Slight veering" ELSE "Slight backing")
             ELSE IF d > 0
                  THEN (IF nearish THEN "Veering likely" ELSE "Veering (observed)")
             ELSE (IF nearish THEN "Backing likely" ELSE "Backing (observed)")

_derive_frontal_zone(distance_class, pressure_slope_hpa_per_hr, wind_trend) ==
    IF distance_class \notin {"Near", "Very near", "Imminent"} THEN FALSE
    ELSE IF IsNone(pressure_slope_hpa_per_hr) THEN FALSE
    ELSE IF pressure_slope_hpa_per_hr.v > -50 THEN FALSE
    ELSE IF ~InStr("Increasing", wind_trend) THEN FALSE
    ELSE TRUE

_derive_anchoring_risk(distance_class, wind_trend) ==
    IF distance_class \in {"Very near", "Imminent"} THEN "Unsafe"
    ELSE IF distance_class = "Near"
         THEN (IF InStr("Increasing", wind_trend) THEN "Unsafe" ELSE "Caution")
    ELSE IF distance_class = "Approaching"
         THEN (IF InStr("Increasing", wind_trend) \/ InStr("Stable", wind_trend)
               THEN "Caution" ELSE "Safe")
    ELSE "Safe"

COMPASS_NAMES(comp) ==
    CASE comp = "N" -> "North"
      [] comp = "NE" -> "North-East"
      [] comp = "E" -> "East"
      [] comp = "SE" -> "South-East"
      [] comp = "S" -> "South"
      [] comp = "SW" -> "South-West"
      [] comp = "W" -> "West"
      [] comp = "NW" -> "North-West"
      [] OTHER -> "Unknown"

FALLING == -5
RISING == 5
FLAT == 3

\* The near-flat band widened to the Near breakpoint, 0.35 hPa/hr.
RelativePositionFlatUpToNear(low_compass_8, ps, distance_class, wind_trend) ==
    LET pos == COMPASS_NAMES(low_compass_8)
        NEARISH == distance_class \in {"Near", "Very near", "Imminent"}
    IN  IF IsNone(ps) THEN <<pos, "Unknown", "Unknown">>
        ELSE IF NEARISH /\ Abs(ps.v) <= 35 THEN <<pos, "Passing", "Now">>
        ELSE IF ps.v >= RISING \/ wind_trend \in {"Decreased a lot", "Decreased"}
             THEN <<pos, "Moving away", "Passed">>
        ELSE IF ps.v <= FALLING THEN <<pos, "Approaching", "Future">>
        ELSE <<pos, "Unknown", "Unknown">>

\* <<relative position, movement, impact window status>>
_derive_relative_position_and_movement(low_compass_8, ps, distance_class, wind_trend) ==
    LET pos == COMPASS_NAMES(low_compass_8)
        NEARISH == distance_class \in {"Near", "Very near", "Imminent"}
    IN  IF IsNone(ps) THEN <<pos, "Unknown", "Unknown">>
        ELSE IF NEARISH /\ Abs(ps.v) <= FLAT THEN <<pos, "Passing", "Now">>
        ELSE IF ps.v >= RISING \/ wind_trend \in {"Decreased a lot", "Decreased"}
             THEN <<pos, "Moving away", "Passed">>
        ELSE IF ps.v <= FALLING THEN <<pos, "Approaching", "Future">>
        ELSE <<pos, "Unknown", "Unknown">>

\* An optional string: a part of the summary is a string or Python's None.
Str(s) == [k |-> "str", s |-> s]
NoStr == [k |-> "none", s |-> ""]

\* " ".join(parts): a TypeError when a part is None.
JoinRaises(parts) == \E i \in 1..Len(parts) : parts[i].k = "none"

\* str(hemisphere).lower().startswith("s")
StartsWithS(hemisphere) == hemisphere \in {"south", "South", "s", "S"}

WindTrendOf(delta_kn) ==
    IF delta_kn <= -5 THEN "Decreased a lot"
    ELSE IF delta_kn <= -2 THEN "Decreased"
    ELSE IF delta_kn < 2 THEN "Stable"
    ELSE IF delta_kn < 5 THEN "Increased"
    ELSE "Increased a lot"

\* Mutant: the 0.70 breakpoint dropped, 'Near' reaching up to 1.50.
FallRateClassNoVeryNearCut(fall_rate) ==
    IF fall_rate < 5 THEN "Far"
    ELSE IF fall_rate < 15 THEN "Distant"
    ELSE IF fall_rate < 35 THEN "Approaching"
    ELSE IF fall_rate < 150 THEN "Near"
    ELSE "Imminent"

FallRateClass(fall_rate) ==
    IF fall_rate < 5 THEN "Far"
    ELSE IF fall_rate < 15 THEN "Distant"
    ELSE IF fall_rate < 35 THEN "Approaching"
    ELSE IF fall_rate < 70 THEN "Near"
    ELSE IF fall_rate < 150 THEN "Very near"
    ELSE "Imminent"

\* The strong-wind nudge applied at every fall rate.
NudgeCloserAtAnyFallRate(distance_class, wspd, fall_rate) ==
    IF ~IsNone(wspd)
    THEN IF wspd.v >= 30 THEN _shift_closer(distance_class, 2)
         ELSE IF wspd.v >= 20 THEN _shift_closer(distance_class, 1)
         ELSE distance_class
    ELSE distance_class

\* The strong-wind nudge of the distance class (fall_rate >= 0.15 only).
NudgeCloser(distance_class, wspd, fall_rate) ==
    IF ~IsNone(wspd) /\ fall_rate >= 15
    THEN IF wspd.v >= 30 THEN _shift_closer(distance_class, 2)
         ELSE IF wspd.v >= 20 THEN _shift_closer(distance_class, 1)
         ELSE distance_class
    ELSE distance_class

\* wind_outlook, assigned only when the wind delta is known.
WindOutlook(pslope, wind_trend, delta_kn) ==
    IF ~IsNone(pslope) /\ pslope.v < -50
    THEN IF wind_trend \in {"Stable", "Stable/unknown"}
         THEN Str("Wind likely to increase as pressure continues to fall.")
         ELSE IF wind_trend \in {"Increased", "Increased a lot"}
         THEN Str("Wind likely to increase further as pressure continues to fall.")
         ELSE NoStr
    ELSE IF ~IsNone(pslope) /\ pslope.v >= -50 /\ pslope.v <= 50
    THEN IF delta_kn < 1 THEN Str("Wind likely to be stable.")
         ELSE Str("Wind likely to be almost stable.")
    ELSE IF ~IsNone(pslope) /\ pslope.v > 50
    THEN IF wind_trend \in {"Stable", "Stable/unknown", "Decreased", "Decreased a lot"}
         THEN Str("Wind likely to decrease as pressure continues to rise.")
         ELSE NoStr
    ELSE Str("Wind confusing, keep an eye out.")

\* The parts list of the summary, in order (numbers left out of the text).
SummaryParts(low_relative_position, distance_class, low_movement, impact_window_status, time_to_impact_range, pslope, wspd, delta_kn, wind_trend, wind_outlook, wind_rotation_likely, frontal_zone, anchoring_risk) ==
    <<Str("Low to the <position> (<deg>), ")>>
    \o (IF distance_class # "Unknown"
        THEN <<Str("distance <km_range>, <movement>.")>>
        ELSE <<Str("Distance: unknown.")>>)
    \o (IF impact_window_status = "Passed"
        THEN <<Str("Main weather from this system has passed, conditions are improving.")>>
        ELSE IF impact_window_status = "Now"
        THEN <<Str("Main impact from this system is occurring now or is imminent, expect the worst conditions in the next 1-2 hours.")>>
        ELSE IF impact_window_status = "Future"
        THEN (IF time_to_impact_range \in {"< 3 hours", "3-6 hours", "6-12 hours"}
              THEN <<Str("Weather is deteriorating, main impact from this system is expected within <range>. Prepare for worsening conditions.")>>
              ELSE <<Str("A low pressure system is present but still far away. No significant impact is expected in the next 12-24 hours.")>>)
        ELSE <<Str("Weather situation is unclear. Signals are mixed; monitor pressure and wind trends closely.")>>)
    \o (IF IsNone(pslope) THEN <<>>
        ELSE IF Abs(pslope.v) < 10 THEN <<Str("Pressure: roughly steady.")>>
        ELSE IF pslope.v < 0 THEN <<Str("Pressure: falling (<slope> hPa/hr).")>>
        ELSE <<Str("Pressure: rising (+<slope> hPa/hr).")>>)
    \o (IF IsNone(wspd) THEN <<Str("Current wind: unknown.")>>
        ELSE <<(IF IsNone(delta_kn)
                THEN Str("Current wind: <wspd> kn (<trend>).")
                ELSE Str("Current wind: <wspd> kn, <trend> (delta <delta> kn).")),
               wind_outlook>>)
    \o (IF wind_rotation_likely \notin {"Uncertain", "Unknown"}
        THEN <<Str("Likely direction change: <rotation>.")>>
        ELSE <<Str("Likely direction change: uncertain.")>>)
    \o (IF frontal_zone THEN <<Str("Frontal zone likely.")>> ELSE <<>>)
    \o <<Str("Anchoring risk: <risk>.")>>

\* estimate_low_properties: the locals at the end of the function.  `raised`
\* is TRUE when building the summary raises (no LowEstimate is returned).
\* The weather trend left as derived from the distance class.
SoftenedWeatherTrendNever(impact_window_status, weather_trend) == weather_trend

\* "If we were calling this 'deteriorating' purely from distance class, soften it."
SoftenedWeatherTrend(impact_window_status, weather_trend) ==
    IF impact_window_status = "Passed" /\ weather_trend \in {"Deteriorating", "Rapidly deteriorating"}
    THEN "Improving" ELSE weather_trend

estimate_low_properties(wind_from_deg, pressure_slope_hpa_per_hr, wind_speed_kn, wind_speed_history_kn, wind_dir_delta_deg, hemisphere) ==
    LET wdir == _safe_float(wind_from_deg)
        pslope == _safe_float(pressure_slope_hpa_per_hr)
        wspd == _safe_float(wind_speed_kn)
        wdir_delta == _safe_float(wind_dir_delta_deg)
        \* Core 1: direction to the low
        low_deg == IF IsNone(wdir) THEN 0
                   ELSE IF StartsWithS(hemisphere) THEN _clamp_deg(wdir.v - 9000)
                   ELSE _clamp_deg(wdir.v + 9000)
        low_compass == IF IsNone(wdir) THEN "N" ELSE _compass_8(low_deg)
        conf_dir == IF IsNone(wdir) THEN "low" ELSE "medium"
        \* Core 2: distance class
        fall_rate == IF IsNone(pslope) THEN 0 ELSE Max2(0, 0 - pslope.v)
        distance_class == IF IsNone(pslope) THEN "Unknown"
                          ELSE NudgeCloser(FallRateClass(fall_rate), wspd, fall_rate)
        km_range == IF IsNone(pslope) THEN "Unknown" ELSE _DISTANCE_RANGE(distance_class)
        conf_dist == IF IsNone(pslope) THEN "low"
                     ELSE IF fall_rate >= 15 THEN "medium" ELSE "low"
        \* Core 3: wind trend
        delta_kn == _wind_delta_knots(wind_speed_history_kn)
        wind_trend == IF IsNone(delta_kn) THEN "Stable/unknown" ELSE WindTrendOf(delta_kn.v)
        wind_outlook == IF IsNone(delta_kn) THEN NoStr
                        ELSE WindOutlook(pslope, wind_trend, delta_kn.v)
        conf_wind == IF IsNone(delta_kn) THEN "low" ELSE "medium"
        confidence == _combine_confidence(conf_dir, conf_dist, conf_wind)
        \* Derived signals
        weather_trend0 == _derive_weather_trend(distance_class, wind_trend)
        rpm == _derive_relative_position_and_movement(low_compass, pslope,
                                                      distance_class, wind_trend)
        impact_window_status == rpm[3]
        impact == _IMPACT_MAP(distance_class)
        weather_trend == SoftenedWeatherTrend(impact_window_status, weather_trend0)
        time_to_impact == IF impact_window_status = "Passed" THEN "Passed"
                          ELSE IF impact_window_status = "Now" THEN "Now"
                          ELSE IF impact = <<>> THEN "Unknown" ELSE impact[1]
        time_to_impact_range == IF impact_window_status = "Passed" THEN "already passed"
                                ELSE IF impact_window_status = "Now" THEN "now / next 1-2 hours"
                                ELSE IF impact = <<>> THEN "Unknown" ELSE impact[2]
        wind_rotation_likely == _derive_wind_rotation_likely(distance_class, wdir_delta)
        frontal_zone == _derive_frontal_zone(distance_class, pslope, wind_trend)
        anchoring_risk == _derive_anchoring_risk(distance_class, wind_trend)
        parts == SummaryParts(rpm[1], distance_class, rpm[2], impact_window_status,
                              time_to_impact_range, pslope, wspd, delta_kn, wind_trend,
                              wind_outlook, wind_rotation_likely, frontal_zone,
                              anchoring_risk)
    IN  [called |-> TRUE,
         raised |-> JoinRaises(parts),
         low_bearing_deg |-> Round1(low_deg),
         low_bearing_compass |-> low_compass,
         distance_class |-> distance_class,
         distance_km_range |-> km_range,
         wind_trend |-> wind_trend,
         wind_delta_kn |-> delta_kn,
         confidence |-> confidence,
         conf_dir |-> conf_dir,
         conf_dist |-> conf_dist,
         conf_wind |-> conf_wind,
         pressure_slope_hpa_per_hr |-> pslope,
         weather_trend |-> weather_trend,
         time_to_impact |-> time_to_impact,
         time_to_impact_range |-> time_to_impact_range,
         wind_rotation_likely |-> wind_rotation_likely,
         wind_dir_delta_deg |-> wdir_delta,
         frontal_zone |-> frontal_zone,
         anchoring_risk |-> anchoring_risk,
         low_relative_position |-> rpm[1],
         low_movement |-> rpm[2],
         impact_window_status |-> impact_window_status,
         summary |-> parts]

(***************************************************************************)
(* The inputs of estimate_low_properties the model enumerates.             *)
(***************************************************************************)

\* Longest wind-speed history handed to the estimator.
MaxHistLen == 2

\* Wind-from bearings: 0, 135 and 270 degrees, and 0.04 degrees short of each.
WindFromInputs == {None, Bad, Num(0), Num(35996), Num(13500), Num(13496),
                   Num(27000), Num(26996)}
HemisphereInputs == {"north", "south"}
PressureSlopeInputs ==
    {None, Bad} \cup
    {Num(n) : n \in {-150, -149, -80, -70, -69, -51, -50, -35, -34, -15, -14,
                     -5, -4, -3, 0, 3, 5, 50, 51}}
WindSpeedInputs == {None, Num(10), Num(19), Num(20), Num(29), Num(30)}
HistoryValues == {Bad, Num(0), Num(2), Num(5)}
SeqsUpTo(S, n) == UNION {[1..m -> S] : m \in 0..n}
WindHistoryInputs ==
    {[k |-> "none", v |-> <<>>], [k |-> "scalar", v |-> <<>>]}
    \cup {[k |-> "seq", v |-> h] : h \in SeqsUpTo(HistoryValues, MaxHistLen)}
WindDirDeltaInputs == {None, Num(2), Num(-9), Num(10)}

LowInputs ==
    [wind_from_deg : WindFromInputs,
     pressure_slope_hpa_per_hr : PressureSlopeInputs,
     wind_speed_kn : WindSpeedInputs,
     wind_speed_history_kn : WindHistoryInputs,
     wind_dir_delta_deg : WindDirDeltaInputs,
     hemisphere : HemisphereInputs]

InitLow ==
    /\ lowIn \in LowInputs /\ lowOut = NotRun
    /\ ForecastIdle /\ FogIdle /\ TrendIdle /\ UpdateIdle /\ RecheckIdle /\ WindIdle /\ EntriesIdle

\* One call of estimate_low_properties on the chosen arguments.
EstimateLow ==
    /\ lowIn # NotRun /\ lowOut = NotRun
    /\ lowOut' = estimate_low_properties(lowIn.wind_from_deg,
                                         lowIn.pressure_slope_hpa_per_hr,
                                         lowIn.wind_speed_kn,
                                         lowIn.wind_speed_history_kn,
                                         lowIn.wind_dir_delta_deg,
                                         lowIn.hemisphere)
    /\ UNCHANGED <<lowIn, zfVars, fogVars, ptVars, updVars, schedVars, wdVars, entVars>>

NextLow == EstimateLow

SpecLow == InitLow /\ [][NextLow]_vars

(***************************************************************************)
(* Claims about estimate_low_properties (checked under SpecLow).           *)
(***************************************************************************)

Returned(out) == out.called /\ ~out.raised

ConfLevels == {"low", "medium", "high"}
ConfRank(p) == IF p = "low" THEN 0 ELSE IF p = "medium" THEN 1 ELSE 2
WeakestOf(a, b, c) ==
    CHOOSE p \in {a, b, c} : \A q \in {a, b, c} : ConfRank(p) <= ConfRank(q)

\* C1: the overall confidence is the minimum, in the order low < medium <
\* high, of the direction, distance and wind partial confidences, for every
\* call of the estimator and for every triple of confidence tokens.
C1_ConfidenceIsMinimum ==
    /\ lowOut.called =>
         lowOut.confidence = WeakestOf(lowOut.conf_dir, lowOut.conf_dist, lowOut.conf_wind)
    /\ \A a \in ConfLevels, b \in ConfLevels, c \in ConfLevels :
         _combine_confidence(a, b, c) = WeakestOf(a, b, c)

C1_Witness ==
    /\ Returned(lowOut)
    /\ lowOut.conf_dir = "medium" /\ lowOut.conf_dist = "medium"
    /\ lowOut.conf_wind = "low" /\ lowOut.confidence = "low"

\* C2: estimate_low_properties never raises; every call returns a LowEstimate
\* with a summary.
C2_NeverRaises == lowOut.called => ~lowOut.raised

NorthOf(wdir) == (wdir + 9000) % FullCircle
SouthOf(wdir) == (wdir - 9000) % FullCircle

\* C6: with the wind direction present the returned bearing is
\* (wind_from + 90) mod 360 (north) or (wind_from - 90) mod 360 (south), to
\* the one decimal the estimate reports, and lies in [0, 360); with it
\* missing the bearing is 0 / N and the overall confidence is low.
C6_BuysBallotBearing ==
    Returned(lowOut) =>
      IF lowIn.wind_from_deg.k = "num"
      THEN /\ lowOut.low_bearing_deg =
                Round1(IF lowIn.hemisphere = "south" THEN SouthOf(lowIn.wind_from_deg.v)
                       ELSE NorthOf(lowIn.wind_from_deg.v))
           /\ lowOut.low_bearing_deg >= 0
           /\ lowOut.low_bearing_deg < FullCircle
      ELSE /\ lowOut.low_bearing_deg = 0
           /\ lowOut.low_bearing_compass = "N"
           /\ lowOut.confidence = "low"

Scenario2(in) ==
    /\ in.wind_from_deg = Num(27000)
    /\ in.hemisphere = "north"
    /\ in.pressure_slope_hpa_per_hr = Num(-80)
    /\ (in.wind_speed_kn.k = "num" => in.wind_speed_kn.v < 20)

\* C7 (as claimed): wind from 270, north, slope -0.8, no strong wind gives
\* bearing 0 (N) and distance class Near.
C7_Scenario2Near ==
    (Returned(lowOut) /\ Scenario2(lowIn)) =>
      /\ lowOut.low_bearing_deg = 0
      /\ lowOut.low_bearing_compass = "N"
      /\ lowOut.distance_class = "Near"

\* C7 (amended): wind from 270, north, slope -0.8, no strong wind: every
\* returned estimate has bearing 0 (N) and distance class Very near (0.8 lies
\* in [0.70, 1.50)); with the wind speed absent an estimate is returned.
C7_Scenario2VeryNear ==
    (lowOut.called /\ Scenario2(lowIn)) =>
      /\ ~lowOut.raised =>
           /\ lowOut.low_bearing_deg = 0
           /\ lowOut.low_bearing_compass = "N"
           /\ lowOut.distance_class = "Very near"
           /\ lowOut.distance_km_range = "80-200 km"
      /\ lowIn.wind_speed_kn.k # "num" => ~lowOut.raised

C7_Witness ==
    /\ Returned(lowOut) /\ Scenario2(lowIn)
    /\ lowIn.wind_speed_kn = Num(19)
    /\ lowOut.distance_class = "Very near"

\* The wind trend as the claims name it, from the delta of the wind-speed
\* history: increasing from +2 kn, increasing a lot from +5 kn, decreasing
\* up to -2 kn.
WindIncreasing(out) == out.wind_delta_kn.k = "num" /\ out.wind_delta_kn.v >= 2
WindIncreasingALot(out) == out.wind_delta_kn.k = "num" /\ out.wind_delta_kn.v >= 5
WindDecreasing(out) == out.wind_delta_kn.k = "num" /\ out.wind_delta_kn.v <= -2
WindSteady(out) == out.wind_trend \in {"Stable", "Stable/unknown"}

\* C17: frontal_zone is true exactly when the distance class is Near, Very
\* near or Imminent, the pressure slope is below -0.5 hPa/hr and the wind
\* trend from the wind-speed history is increasing (delta of at least +2 kn).
C17_FrontalZone ==
    Returned(lowOut) =>
        (lowOut.frontal_zone <=>
            /\ lowOut.distance_class \in {"Near", "Very near", "Imminent"}
            /\ lowOut.pressure_slope_hpa_per_hr.k = "num"
            /\ lowOut.pressure_slope_hpa_per_hr.v < -50
            /\ WindIncreasing(lowOut))

\* C18: anchoring_risk is Unsafe for Very near or Imminent; for Near it is
\* Unsafe when the wind trend is increasing and Caution otherwise; for
\* Approaching it is Caution when the wind trend is increasing or steady and
\* Safe otherwise; for every other distance class it is Safe.
C18_AnchoringRisk ==
    Returned(lowOut) =>
        lowOut.anchoring_risk =
            (CASE lowOut.distance_class \in {"Very near", "Imminent"} -> "Unsafe"
               [] lowOut.distance_class = "Near" -> (IF WindIncreasing(lowOut) THEN "Unsafe" ELSE "Caution")
               [] lowOut.distance_class = "Approaching" ->
                      (IF WindIncreasing(lowOut) \/ WindSteady(lowOut) THEN "Caution" ELSE "Safe")
               [] OTHER -> "Safe")

WeatherTrendBase(distance_class) ==
    CASE distance_class \in {"Far", "Distant"} -> "Stable"
      [] distance_class \in {"Approaching", "Near"} -> "Deteriorating"
      [] distance_class \in {"Very near", "Imminent"} -> "Rapidly deteriorating"

OneStepWorse(weather_trend) == IF weather_trend = "Stable" THEN "Deteriorating" ELSE "Rapidly deteriorating"

\* C19: the weather trend is the label of the distance class (Far/Distant
\* Stable, Approaching/Near Deteriorating, Very near/Imminent Rapidly
\* deteriorating), one severity step worse when the wind trend is the "a lot"
\* increase bucket (delta >= +5 kn), and Improving when the wind trend is a
\* decrease and the distance class is Far, Distant or Approaching.  (Stated
\* for the estimates whose impact window has not passed, which C20 covers.)
C19_WeatherTrend ==
    (Returned(lowOut) /\ lowOut.distance_class # "Unknown" /\ lowOut.impact_window_status # "Passed") =>
        lowOut.weather_trend =
            (IF WindDecreasing(lowOut) /\ lowOut.distance_class \in {"Far", "Distant", "Approaching"}
             THEN "Improving"
             ELSE IF WindIncreasingALot(lowOut) THEN OneStepWorse(WeatherTrendBase(lowOut.distance_class))
             ELSE WeatherTrendBase(lowOut.distance_class))

\* C20: in every LowEstimate whose impact_window_status is Passed the
\* weather_trend is neither Deteriorating nor Rapidly deteriorating and
\* time_to_impact is Passed.
C20_PassedIsNotDeteriorating ==
    (Returned(lowOut) /\ lowOut.impact_window_status = "Passed") =>
        /\ lowOut.weather_trend \notin {"Deteriorating", "Rapidly deteriorating"}
        /\ lowOut.time_to_impact = "Passed"

\* A near low with easing wind: the distance class alone says Deteriorating,
\* the passed impact window turns it into Improving.
C20_Witness ==
    /\ Returned(lowOut)
    /\ lowOut.impact_window_status = "Passed"
    /\ lowOut.distance_class = "Near"
    /\ WindDecreasing(lowOut)
    /\ lowOut.weather_trend = "Improving"
    /\ lowOut.time_to_impact = "Passed"

\* The fall rate and the wind speed of the call, as the estimator parses them.
FallRateOf(out) == Max2(0, 0 - out.pressure_slope_hpa_per_hr.v)
WindSpeedOf(in) == _safe_float(in.wind_speed_kn)
WindSteps(wspd) == IF IsNone(wspd) THEN 0 ELSE IF wspd.v >= 30 THEN 2 ELSE IF wspd.v >= 20 THEN 1 ELSE 0

\* C21 (as claimed): for every known pressure slope a wind speed of at least
\* 30 kn moves the distance class two steps closer and one of at least 20 kn
\* one step closer than the class of the fall-rate breakpoints, capped at
\* Imminent.
C21_StrongWindNudgesAlways ==
    (Returned(lowOut) /\ lowOut.pressure_slope_hpa_per_hr.k = "num") =>
        lowOut.distance_class =
            _shift_closer(FallRateClass(FallRateOf(lowOut)), WindSteps(WindSpeedOf(lowIn)))

\* C21 (amended): the nudge of two steps (wind >= 30 kn) or one step (wind >=
\* 20 kn), capped at Imminent, is applied only when the fall rate is at least
\* 0.15 hPa/hr; below that the distance class is the one of the fall-rate
\* breakpoints (Far or Distant) whatever the wind speed.
C21_StrongWindNudgesWhenFalling ==
    (Returned(lowOut) /\ lowOut.pressure_slope_hpa_per_hr.k = "num") =>
        lowOut.distance_class =
            (IF FallRateOf(lowOut) >= 15
             THEN _shift_closer(FallRateClass(FallRateOf(lowOut)), WindSteps(WindSpeedOf(lowIn)))
             ELSE FallRateClass(FallRateOf(lowOut)))

\* A 30 kn wind with a fall of 0.34 hPa/hr: Approaching becomes Very near.
C21_Witness ==
    /\ Returned(lowOut)
    /\ lowOut.pressure_slope_hpa_per_hr.k = "num"
    /\ FallRateOf(lowOut) >= 15
    /\ FallRateClass(FallRateOf(lowOut)) = "Approaching"
    /\ WindSteps(WindSpeedOf(lowIn)) = 2
    /\ lowOut.distance_class = "Very near"

\* C24: whenever the pressure slope is falling by at least 0.05 hPa/hr the
\* low's movement is Approaching and the impact window status is Future,
\* whatever the wind trend and the distance class are.
C24_FallingMeansApproaching ==
    (Returned(lowOut) /\ lowOut.pressure_slope_hpa_per_hr.k = "num" /\ lowOut.pressure_slope_hpa_per_hr.v <= FALLING) =>
        /\ lowOut.low_movement = "Approaching"
        /\ lowOut.impact_window_status = "Future"

\* C26: estimate_low_properties never reports low_movement Passing or
\* impact_window_status Now: every near-ish distance class needs a fall rate
\* of at least 0.15 hPa/hr, outside the near-flat band that Passing requires.
C26_NeverPassing ==
    Returned(lowOut) =>
        /\ lowOut.low_movement # "Passing"
        /\ lowOut.impact_window_status # "Now"
        /\ lowOut.time_to_impact # "Now"
        /\ lowOut.distance_class \in {"Near", "Very near", "Imminent"} =>
              /\ lowOut.pressure_slope_hpa_per_hr.k = "num"
              /\ FallRateOf(lowOut) >= 15
              /\ Abs(lowOut.pressure_slope_hpa_per_hr.v) > FLAT

\* The near-ish estimate with the slowest fall: 0.15 hPa/hr, nudged from
\* Approaching to Near by a 20 kn wind.
C26_Witness ==
    /\ Returned(lowOut)
    /\ lowOut.distance_class = "Near"
    /\ lowOut.pressure_slope_hpa_per_hr = Num(-15)
    /\ lowOut.low_movement = "Approaching"
    /\ lowOut.impact_window_status = "Future"

\* C28: the overall confidence of a LowEstimate is never high: each partial
\* confidence is low or medium, and the result is low whenever the wind
\* direction, the pressure slope or the wind-speed history is missing or the
\* fall rate is below 0.15 hPa/hr.
C28_ConfidenceNeverHigh ==
    Returned(lowOut) =>
        /\ lowOut.confidence \in {"low", "medium"}
        /\ {lowOut.conf_dir, lowOut.conf_dist, lowOut.conf_wind} \subseteq {"low", "medium"}
        /\ (\/ IsNone(_safe_float(lowIn.wind_from_deg))
            \/ IsNone(lowOut.pressure_slope_hpa_per_hr)
            \/ IsNone(lowOut.wind_delta_kn)
            \/ FallRateOf(lowOut) < 15) => lowOut.confidence = "low"

\* Everything known and a fall of at least 0.15 hPa/hr: medium, the best there is.
C28_Witness ==
    /\ Returned(lowOut)
    /\ ~IsNone(_safe_float(lowIn.wind_from_deg))
    /\ ~IsNone(lowOut.wind_delta_kn)
    /\ ~IsNone(lowOut.pressure_slope_hpa_per_hr) /\ FallRateOf(lowOut) >= 15
    /\ lowOut.confidence = "medium"

(***************************************************************************)
(* helpers.py, const.py, weather_processing.py                             *)
(* Pressures in hPa, temperatures in degrees C, alert levels in tenths.    *)
(***************************************************************************)

\* helpers.safe_float(value, default=0.0): the default for what float() rejects.
safe_float(value) == IF value.k = "num" THEN value.v ELSE 0

\* Python truthiness of a float.
Truthy(x) == x # 0

ICON_MAPPING ==
    <<"mdi:weather-sunny", "mdi:weather-partly-cloudy", "mdi:weather-partly-rainy",
      "mdi:weather-cloudy", "mdi:weather-rainy", "mdi:weather-pouring",
      "mdi:weather-lightning-rainy", "mdi:weather-windy",
      "mdi:weather-hurricane-outline">>

\* ICON_MAPPING[i][0], Python's index i counting from 0.
Icon(i) == ICON_MAPPING[i + 1]

DefaultIcon == "mdi:zend"

\* trend.replace("_", " ").title()
DTrend(trend) ==
    CASE trend = "rising_fast" -> "Rising Fast"
      [] trend = "rising" -> "Rising"
      [] trend = "steady" -> "Steady"
      [] trend = "falling" -> "Falling"
      [] trend = "falling_fast" -> "Falling Fast"
      [] trend = "plummeting" -> "Plummeting"
      [] OTHER -> trend

\* str(plus_minus.get(trend)) as the f-string prints it.
PlusMinus(trend) ==
    CASE trend = "rising" -> "+"
      [] trend = "steady" -> "+"
      [] trend = "falling" -> "+-"
      [] trend = "falling_fast" -> "-"
      [] trend = "plummeting" -> "-"
      [] OTHER -> "None"

\* temp_modifier (lines 29-35), in tenths of an alert level.
TempModifier(temperature) ==
    IF Truthy(safe_float(temperature))
    THEN IF safe_float(temperature) > 25 THEN 10
         ELSE IF safe_float(temperature) < 5 THEN -10
         ELSE 0
    ELSE 0

NoCell == [cell |-> FALSE]
Cell(text, snow, icon, base, floor, offset) ==
    [cell |-> TRUE, text |-> text, snow |-> snow, icon |-> icon, base |-> base,
     floor |-> floor, offset |-> offset]

\* The if/elif table of lines 42-131: the branch taken for (trend, pressure)
\* with its sentence, sub-zero clause ("" when the branch has none), icon,
\* alert floor (tenths) and wind estimate max(floor, current_wind + offset).
ForecastCell(trend, pressure) ==
    CASE trend = "rising" ->
           (IF pressure > 1020
            THEN Cell("Clear(ish) skies, little to no rain, mild temperatures.", "", Icon(0), 0, 5, -3)
            ELSE IF pressure > 1010
            THEN Cell("Stable, calm, and pleasant weather, possible light clouds.", "", Icon(1), 0, 5, -2)
            ELSE Cell("Improving conditions, clearing skies.", "", Icon(2), 0, 10, 0))
      [] trend = "steady" ->
           (IF pressure > 1020
            THEN Cell("Continued fair, calm and predictable weather.", "", Icon(0), 0, 5, 0)
            ELSE IF pressure > 1010
            THEN Cell("Fair weather with occasional clouds.", "", Icon(1), 0, 8, 0)
            ELSE Cell("Changeable weather, gusty winds, possible rain later.", "", Icon(3), 10, 12, 3))
      [] trend = "falling" ->
           (IF pressure > 1020
            THEN Cell("Possible deterioration, watch for winds.", "", Icon(2), 10, 15, 5)
            ELSE IF pressure > 1010
            THEN Cell("Changeable weather, gusty winds, increasing cloud cover.", "", Icon(4), 20, 20, 8)
            ELSE Cell("Stormy conditions likely, heavy rain expected.", " Possible snow instead of rain.", Icon(5), 30, 25, 12))
      [] trend = "falling_fast" ->
           (IF pressure > 1005
            THEN Cell("Windy, rain likely.", "", Icon(4), 30, 25, 12)
            ELSE IF pressure > 990
            THEN Cell("Strong winds, rain, possible squalls.", " Snowstorm possible!", Icon(4), 40, 30, 15)
            ELSE Cell("Very low pressure. Dangerous weather, high winds, big waves.", "", Icon(6), 50, 40, 25))
      [] trend = "plummeting" ->
           (IF pressure > 1005
            THEN Cell("Strong winds, thunderstorms, possible storm system.", "Blizzard conditions possible.", Icon(6), 40, 30, 20)
            ELSE IF pressure > 990
            THEN Cell("Low pressure. Major storm system, possible gale-force winds.", "", Icon(7), 50, 40, 25)
            ELSE Cell("Very low pressure. Severe weather, hurricane/cyclone possible.", "", Icon(7), 50, 50, 30))
      [] OTHER -> NoCell

\* round(x * 1.2) of a whole number x (x * 1.2 is never a tie).
RoundTimes12(x) == (x * 12 + 5) \div 10

\* zambretti_forecast(pressure, fall, trend, current_wind_speed, temperature):
\* pressure, fall and current_wind_speed are numbers, temperature the float
\* sensor.py passes (a [k, v] value).
zambretti_forecast(pressure, fall, trend, current_wind_speed, temperature) ==
    LET prefix == IF fall # 0
                  THEN <<DTrend(trend) \o " pressure, " \o PlusMinus(trend) \o "<fall>/hr. ">>
                  ELSE <<>>
        alert_level0 == 0
        temp_modifier == TempModifier(temperature)
        c == ForecastCell(trend, pressure)
        sentence == IF c.cell
                    THEN <<c.text>> \o (IF c.snow # "" /\ temperature.v < 0 THEN <<c.snow>> ELSE <<>>)
                    ELSE <<>>
        icon == IF c.cell THEN c.icon ELSE DefaultIcon
        level == IF c.cell THEN Max2(c.base, alert_level0 + temp_modifier) ELSE alert_level0
        estimated_wind_speed == IF c.cell THEN Max2(c.floor, current_wind_speed + c.offset)
                                ELSE current_wind_speed
    IN  [called |-> TRUE,
         forecast |-> prefix \o sentence,
         icon |-> icon,
         alert_level |-> level,
         estimated_wind_speed |-> estimated_wind_speed,
         estimated_max_wind_speed |-> RoundTimes12(estimated_wind_speed),
         temp_modifier |-> temp_modifier]

\* Highest current wind speed (knots) handed to the forecast.
MaxWind == 12

TrendBuckets == {"rising_fast", "rising", "steady", "falling", "falling_fast", "plummeting"}
PressureInputs == {985, 990, 991, 1005, 1006, 1010, 1011, 1020, 1021}
FallInputs == {-45, 0, 5}
TemperatureInputs == {Num(t) : t \in {-5, 0, 4, 5, 6, 25, 26, 30}}

ForecastInputs ==
    [pressure : PressureInputs, fall : FallInputs, trend : TrendBuckets,
     current_wind_speed : 0..MaxWind, temperature : TemperatureInputs]

InitForecast ==
    /\ zfIn \in ForecastInputs /\ zfOut = NotRun
    /\ LowIdle /\ FogIdle /\ TrendIdle /\ UpdateIdle /\ RecheckIdle /\ WindIdle /\ EntriesIdle

\* One call of zambretti_forecast on the chosen arguments.
Forecast ==
    /\ zfIn # NotRun /\ zfOut = NotRun
    /\ zfOut' = zambretti_forecast(zfIn.pressure, zfIn.fall, zfIn.trend,
                                   zfIn.current_wind_speed, zfIn.temperature)
    /\ UNCHANGED <<zfIn, lowVars, fogVars, ptVars, updVars, schedVars, wdVars, entVars>>

NextForecast == Forecast

SpecForecast == InitForecast /\ [][NextForecast]_vars

(***************************************************************************)
(* Claims about zambretti_forecast (checked under SpecForecast).           *)
(***************************************************************************)

\* C8: the returned alert level is max(baseline, baseline + temp_modifier) of
\* the decision-table cell selected by (trend, pressure).
C8_AlertIsBaselinePlusModifier ==
    zfOut.called =>
      LET c == ForecastCell(zfIn.trend, zfIn.pressure)
      IN  c.cell => zfOut.alert_level = Max2(c.base, c.base + zfOut.temp_modifier)

\* C9: the temperature modifier is +1 above 25, -1 below 5 (0 and negative
\* values included) and 0 from 5 to 25.
C9_TempModifierBands ==
    zfOut.called =>
      zfOut.temp_modifier = (IF zfIn.temperature.v > 25 THEN 10
                             ELSE IF zfIn.temperature.v < 5 THEN -10
                             ELSE 0)

IconCategories == {ICON_MAPPING[i] : i \in 1..Len(ICON_MAPPING)}

\* C10: each of the six trend buckets selects a decision-table cell at every
\* pressure: the result carries the cell's sentence, an icon of the icon
\* categories, an alert no lower than the cell's baseline and the wind estimate
\* max(floor, current_wind + offset); nothing falls through to the defaults.
C10_EveryBucketSelectsACell ==
    (zfOut.called /\ zfIn.trend \in TrendBuckets) =>
      LET c == ForecastCell(zfIn.trend, zfIn.pressure)
      IN  /\ c.cell
          /\ \E i \in 1..Len(zfOut.forecast) : zfOut.forecast[i] = c.text
          /\ zfOut.icon \in IconCategories
          /\ zfOut.alert_level >= c.base
          /\ zfOut.estimated_wind_speed = Max2(c.floor, zfIn.current_wind_speed + c.offset)

\* Regional normal pressures a caller can supply (hPa); 1015 is the value the
\* integration falls back to.
NormalPressures == {1010, 1015, 1020}

\* The band of a pressure relative to a normal pressure.
BandOf(pressure, normal_pressure) ==
    IF pressure > normal_pressure + 5 THEN "high"
    ELSE IF pressure > normal_pressure - 5 THEN "normal"
    ELSE "low"

\* The band whose cell the returned forecast sentence comes from.
SelectedBand(trend, forecast) ==
    CHOOSE b \in {"high", "normal", "low", "none"} :
        \/ b # "none" /\ \E i \in 1..Len(forecast) : \E p \in PressureInputs :
              BandOf(p, 1015) = b /\ forecast[i] = ForecastCell(trend, p).text
        \/ b = "none" /\ \A i \in 1..Len(forecast) : \A p \in PressureInputs :
              forecast[i] # ForecastCell(trend, p).text

\* C23: the pressure bands of the decision table are relative to the supplied
\* regional normal pressure: for the trends rising, steady and falling the
\* cell selected is the one of the band bounded by normal_pressure + 5 and
\* normal_pressure - 5, for every normal pressure supplied.
C23_BandsRelativeToNormal ==
    (zfOut.called /\ zfIn.trend \in {"rising", "steady", "falling"}) =>
        \A normal_pressure \in NormalPressures :
            SelectedBand(zfIn.trend, zfOut.forecast) = BandOf(zfIn.pressure, normal_pressure)

(***************************************************************************)
(* fog_analysis.py: determine_fog_chance                                   *)
(*                                                                         *)
(* Humidity in percent, temperature in degrees C and wind speed are whole  *)
(* numbers here.  alpha is kept in 1e-5, the dew point in 1e-4 degrees,    *)
(* temp_diff in tenths of a degree and the probability in percent.         *)
(***************************************************************************)

\* math.log(h / 100) for h = 1..100, in 1e-5
LogPercent ==
    <<-460517, -391202, -350656, -321888, -299573, -281341, -265926, -252573, -240795, -230259,
       -220727, -212026, -204022, -196611, -189712, -183258, -177196, -171480, -166073, -160944,
       -156065, -151413, -146968, -142712, -138629, -134707, -130933, -127297, -123787, -120397,
       -117118, -113943, -110866, -107881, -104982, -102165, -99425, -96758, -94161, -91629,
       -89160, -86750, -84397, -82098, -79851, -77653, -75502, -73397, -71335, -69315,
       -67334, -65393, -63488, -61619, -59784, -57982, -56212, -54473, -52763, -51083,
       -49430, -47804, -46204, -44629, -43078, -41552, -40048, -38566, -37106, -35667,
       -34249, -32850, -31471, -30111, -28768, -27444, -26136, -24846, -23572, -22314,
       -21072, -19845, -18633, -17435, -16252, -15082, -13926, -12783, -11653, -10536,
       -9431, -8338, -7257, -6188, -5129, -4082, -3046, -2020, -1005, 0>>

\* round(x / unit) for an x that lies on no half-way point
RoundTo(x, unit) == (x + unit \div 2) \div unit

\* alpha = (17.27 * temperature) / (237.7 + temperature) + math.log(humidity / 100)
Alpha(temperature, humidity) == (17270000 * temperature) \div (2377 + 10 * temperature) + LogPercent[humidity]

\* dewpoint = (237.7 * alpha) / (17.27 - alpha)
Dewpoint(alpha) ==
    LET n == 2377 * alpha
        d == 1727000 - alpha
    IN  (n \div d) * 1000 + ((n % d) * 1000) \div d

\* the probability from the distance to the dew point, in tenths of a percent
DewpointProbability(temp_diff) ==
    IF temp_diff > 60 THEN 0
    ELSE IF temp_diff > 30 THEN Max2(0, 1000 - 15 * temp_diff)
    ELSE Max2(0, 1000 - 8 * temp_diff)

\* the multipliers, in tenths
TemperatureScaling(temperature) ==
    IF temperature > 35 THEN 0
    ELSE IF temperature > 30 THEN 1
    ELSE IF temperature > 25 THEN 3
    ELSE IF temperature > 20 THEN 7
    ELSE 10

WindEffect(wind_speed) ==
    IF wind_speed > 20 THEN 1
    ELSE IF wind_speed > 15 THEN 2
    ELSE IF wind_speed > 10 THEN 4
    ELSE IF wind_speed > 5 THEN 7
    ELSE 10

fog_area_adjustments(fog_area_type) ==
    CASE fog_area_type = "frequent_dense_fog" -> 15
      [] fog_area_type = "fog_prone" -> 12
      [] fog_area_type = "normal" -> 10
      [] fog_area_type = "rare_fog" -> 7
      [] fog_area_type = "hardly_ever_fog" -> 4
      [] OTHER -> 10

\* The probability left as it is.
ClampPercentNone(p) == p

\* "Ensure probability remains between 0% and 100%"
ClampPercent(p) == Max2(0, Min2(100, p))

\* The alert raised from the "Fog is possible" band on.
FogAlertLevelAbove70(fog_probability) == IF fog_probability > 70 THEN 30 ELSE 0

\* alert_level: 3 in the branch fog_probability > 90, else the initial 0
FogAlertLevel(fog_probability) == IF fog_probability > 90 THEN 30 ELSE 0

\* n / 10 rounded down.
RoundTenthDown(n) == n \div 10

\* Python's round() of n / 10 for a whole n: halves go to the even neighbour
RoundTenth(n) ==
    LET q == n \div 10
        r == n % 10
    IN  IF r < 5 THEN q
        ELSE IF r > 5 THEN q + 1
        ELSE IF q % 2 = 0 THEN q ELSE q + 1

FogLikelihood(fog_probability) ==
    IF fog_probability > 90 THEN "Fog is very likely"
    ELSE IF fog_probability > 70 THEN "Fog is possible"
    ELSE IF fog_probability > 40 THEN "Fog is unlikely"
    ELSE IF fog_probability > 10 THEN "Fog is very unlikely"
    ELSE "No fog expected"

FogWindSuffix(fog_probability, wind_speed) ==
    IF fog_probability > 90
    THEN (IF wind_speed > 15 THEN ", trong winds soon clear it" ELSE " It may persist")
    ELSE IF fog_probability > 60
    THEN (IF wind_speed > 10 THEN ", ind reduces fog" ELSE " It may persist")
    ELSE ""

FogRejected(text) == [called |-> TRUE, fog_likelihood |-> <<text>>, fog_probability |-> 0, fog_dec_probability |-> 0, dewpoint |-> 0, temp_diff |-> 0, alert_level |-> 0]

\* `x is None` for a value safe_float returned: a float is never None
FloatIsNone(x) == FALSE

\* "Validate input (humidity and temperature must be valid)"
FogInputInvalid(humidity, temperature) == humidity = 0 \/ FloatIsNone(temperature)

determine_fog_chance(p_humidity, p_temperature, p_wind_speed, fog_area_type) ==
    LET humidity == safe_float(p_humidity)
        temperature == safe_float(p_temperature)
        wind_speed == safe_float(p_wind_speed)
        dewpoint == Dewpoint(Alpha(temperature, humidity))
        temp_diff == RoundTo(temperature * 10000 - dewpoint, 1000)
        scaled == DewpointProbability(temp_diff) * TemperatureScaling(temperature) * WindEffect(wind_speed) * fog_area_adjustments(fog_area_type)
        fog_probability == ClampPercent(scaled \div 10000)
    IN  IF FogInputInvalid(humidity, temperature) THEN FogRejected("No valid sensor data.")
        ELSE IF humidity < 20 THEN FogRejected("No chance of fog. Air is too dry.")
        ELSE [called |-> TRUE,
              fog_likelihood |-> <<FogLikelihood(fog_probability), FogWindSuffix(fog_probability, wind_speed)>>,
              fog_probability |-> fog_probability,
              fog_dec_probability |-> RoundTenth(fog_probability) * 10,
              dewpoint |-> RoundTo(dewpoint, 100),
              temp_diff |-> temp_diff,
              alert_level |-> FogAlertLevel(fog_probability)]

MaxFogWind == 21
HumidityInputs == {None, Bad} \cup {Num(h) : h \in {0, 10, 19, 20, 50, 85, 90, 95, 98, 100}}
FogTemperatureInputs == {None, Bad} \cup {Num(t) : t \in {-5, 0, 10, 21, 26, 31, 36}}
FogWindInputs == {None} \cup {Num(w) : w \in {0, 6, 11, 16, MaxFogWind}}
FogAreaTypes == {"frequent_dense_fog", "fog_prone", "normal", "rare_fog", "hardly_ever_fog", "unlisted"}
FogInputs == [called : {TRUE}, p_humidity : HumidityInputs, p_temperature : FogTemperatureInputs, p_wind_speed : FogWindInputs, fog_area_type : FogAreaTypes]

InitFog ==
    /\ fogIn \in FogInputs /\ fogOut = NotRun
    /\ LowIdle /\ ForecastIdle /\ TrendIdle /\ UpdateIdle /\ RecheckIdle /\ WindIdle /\ EntriesIdle

FogChance ==
    /\ fogIn # NotRun /\ fogOut = NotRun
    /\ fogOut' = determine_fog_chance(fogIn.p_humidity, fogIn.p_temperature, fogIn.p_wind_speed, fogIn.fog_area_type)
    /\ UNCHANGED <<fogIn, lowVars, zfVars, ptVars, updVars, schedVars, wdVars, entVars>>

NextFog == FogChance

SpecFog == InitFog /\ [][NextFog]_vars

(***************************************************************************)
(* Claims about determine_fog_chance (SpecFog)                             *)
(***************************************************************************)

\* C3: determine_fog_chance returns probability 0 with the message
\* "No valid sensor data." whenever the humidity is exactly 0 or the
\* temperature is missing (None), whatever the wind speed and area type are.
C3_RejectsMissingInput ==
    (fogOut.called /\ (fogIn.p_humidity = Num(0) \/ IsNone(fogIn.p_temperature))) =>
        /\ fogOut.fog_likelihood = <<"No valid sensor data.">>
        /\ fogOut.fog_probability = 0
        /\ fogOut.fog_dec_probability = 0

\* C14: the fog probability determine_fog_chance returns lies in [0, 100],
\* and it is 0, with alert level 0, whenever the humidity is below 20,
\* whatever the temperature, the wind speed and the area type are.
C14_ProbabilityInRange ==
    fogOut.called =>
        /\ fogOut.fog_probability \in 0..100
        /\ fogOut.fog_dec_probability \in 0..100
        /\ safe_float(fogIn.p_humidity) < 20 =>
              /\ fogOut.fog_probability = 0
              /\ fogOut.fog_dec_probability = 0
              /\ fogOut.alert_level = 0

\* Saturated air in an area of frequent dense fog: the adjusted probability
\* of 150 is clamped to 100.
C14_Witness ==
    /\ fogOut.called
    /\ fogIn.p_humidity = Num(100) /\ fogIn.p_temperature = Num(10)
    /\ fogIn.p_wind_speed = Num(0) /\ fogIn.fog_area_type = "frequent_dense_fog"
    /\ fogOut.fog_probability = 100

\* C15 as stated: the decade probability is the clamped integer probability
\* rounded down to the nearest multiple of 10, so it never exceeds it.
C15_DecadeRoundsDown ==
    fogOut.called =>
        /\ fogOut.fog_dec_probability = (fogOut.fog_probability \div 10) * 10
        /\ fogOut.fog_dec_probability <= fogOut.fog_probability

\* C15 (amended): the decade probability is the multiple of 10 nearest to the
\* clamped integer probability, a probability ending in 5 going to the even
\* multiple; it differs from the probability by at most 5 either way.
C15_DecadeRoundsToNearest ==
    fogOut.called =>
        LET dec == fogOut.fog_dec_probability
            fp == fogOut.fog_probability
        IN  /\ dec % 10 = 0
            /\ Abs(dec - fp) <= 5
            /\ Abs(dec - fp) = 5 => (dec \div 10) % 2 = 0

\* A probability of 87 reported as the decade 90.
C15_Witness == fogOut.called /\ fogOut.fog_probability = 87 /\ fogOut.fog_dec_probability = 90

\* C16: the fog alert level is 3 exactly when the clamped fog probability is
\* above 90 (the "Fog is very likely" band) and 0 in every other case, both
\* rejection paths included; no other value is returned.
C16_AlertOnlyWhenVeryLikely ==
    fogOut.called =>
        /\ fogOut.alert_level \in {0, 30}
        /\ fogOut.alert_level = 30 <=> fogOut.fog_probability > 90
        /\ fogOut.alert_level = 30 <=> fogOut.fog_likelihood[1] = "Fog is very likely"
        /\ Len(fogOut.fog_likelihood) = 1 => fogOut.alert_level = 0

\* A probability above 90 with the alert level 3.
C16_Witness ==
    /\ fogOut.called
    /\ fogOut.fog_probability = 91
    /\ fogOut.fog_likelihood[1] = "Fog is very likely"
    /\ fogOut.alert_level = 30

(***************************************************************************)
(* pressure_analysis.py: determine_pressure_trend                          *)
(*                                                                         *)
(* A history sample is [last_changed, state]: last_changed in minutes,     *)
(* state a raw value.  Pressures are in tenths of a hPa.  A slope is the   *)
(* exact fraction [n, d] (d > 0) of tenths of a hPa per hour, so that the  *)
(* comparisons with the thresholds are exact.                              *)
(***************************************************************************)
MAX_DEVIATION == 15
time_interval_minutes == 15

\* rounded_time = last_changed with its minutes floored to the interval
rounded_time(last_changed) == (last_changed \div time_interval_minutes) * time_interval_minutes

\* num_intervals = (60 / time_interval_minutes) * hours_to_read
NumIntervals(pressure_history_hours) == (60 \div time_interval_minutes) * safe_float(pressure_history_hours)

\* sorted(history_data[entity_id], key=lambda state: state.last_changed)
RECURSIVE InsertByLastChanged(_, _)
InsertByLastChanged(sorted, state) ==
    IF sorted = <<>> THEN <<state>>
    ELSE IF sorted[Len(sorted)].last_changed <= state.last_changed THEN Append(sorted, state)
    ELSE Append(InsertByLastChanged(SubSeq(sorted, 1, Len(sorted) - 1), state), sorted[Len(sorted)])

RECURSIVE SortedByLastChanged(_)
SortedByLastChanged(states) ==
    IF states = <<>> THEN <<>>
    ELSE InsertByLastChanged(SortedByLastChanged(SubSeq(states, 1, Len(states) - 1)), states[Len(states)])

\* The resampling selection that does not compare a sample's slot with the
\* last slot used.
RECURSIVE SelectReadingsEverySample(_, _, _, _, _)
SelectReadingsEverySample(data_points, i, pressure_values, timestamps, num_intervals) ==
    IF i > Len(data_points) THEN [pressure_values |-> pressure_values, timestamps |-> timestamps]
    ELSE LET rt == rounded_time(data_points[i].last_changed)
             values2 == Append(pressure_values, safe_float(data_points[i].state))
             stamps2 == Append(timestamps, rt)
         IN  IF Len(values2) >= num_intervals
             THEN [pressure_values |-> values2, timestamps |-> stamps2]
             ELSE SelectReadingsEverySample(data_points, i + 1, values2, stamps2, num_intervals)

\* "Select one reading per interval": the loop over data_points from index i
RECURSIVE SelectReadings(_, _, _, _, _)
SelectReadings(data_points, i, pressure_values, timestamps, num_intervals) ==
    IF i > Len(data_points) THEN [pressure_values |-> pressure_values, timestamps |-> timestamps]
    ELSE LET rt == rounded_time(data_points[i].last_changed)
             take == timestamps = <<>> \/ rt > timestamps[Len(timestamps)]
             values2 == IF take THEN Append(pressure_values, safe_float(data_points[i].state)) ELSE pressure_values
             stamps2 == IF take THEN Append(timestamps, rt) ELSE timestamps
         IN  IF Len(values2) >= num_intervals
             THEN [pressure_values |-> values2, timestamps |-> stamps2]
             ELSE SelectReadings(data_points, i + 1, values2, stamps2, num_intervals)

RECURSIVE SumSeq(_)
SumSeq(seq) == IF seq = <<>> THEN 0 ELSE seq[1] + SumSeq(Tail(seq))

MinOf(seq) == CHOOSE v \in {seq[i] : i \in 1..Len(seq)} : \A j \in 1..Len(seq) : v <= seq[j]
MaxOf(seq) == CHOOSE v \in {seq[i] : i \in 1..Len(seq)} : \A j \in 1..Len(seq) : v >= seq[j]
\* list.index(v), counted from 0
FirstIndex(seq, v) == (CHOOSE i \in 1..Len(seq) : seq[i] = v /\ \A j \in 1..(i - 1) : seq[j] # v) - 1

\* a fraction with a positive denominator
Frac(n, d) == IF d < 0 THEN [n |-> -n, d |-> -d] ELSE [n |-> n, d |-> d]
FracAbsGreater(a, b) == Abs(a.n) * b.d > Abs(b.n) * a.d

\* np.polyfit(x, y, 1) with x counted in intervals: slope and the deviations
\* of the points from the fitted line, over the common denominator n * den
LineFit(timestamps, pressure_values) ==
    LET n == Len(pressure_values)
        x == [i \in 1..n |-> (timestamps[i] - timestamps[1]) \div time_interval_minutes]
        sx == SumSeq(x)
        sy == SumSeq(pressure_values)
        sxy == SumSeq([i \in 1..n |-> x[i] * pressure_values[i]])
        sxx == SumSeq([i \in 1..n |-> x[i] * x[i]])
        num == n * sxy - sx * sy
        den == n * sxx - sx * sx
        dev == [i \in 1..n |-> Abs(n * den * pressure_values[i] - den * sy + num * sx - n * num * x[i])]
    IN  [num |-> num, den |-> den, n |-> n, sum_deviations |-> SumSeq(dev)]

\* avg_deviation > MAX_DEVIATION
DeviationTooLarge(fit) == fit.sum_deviations > MAX_DEVIATION * fit.n * fit.n * fit.den

\* "U-curve Method": the steeper of the slopes from the minimum and from the
\* maximum to the latest reading
UCurveSlope(pressure_values) ==
    LET n == Len(pressure_values)
        min_pressure == MinOf(pressure_values)
        max_pressure == MaxOf(pressure_values)
        min_index == FirstIndex(pressure_values, min_pressure)
        max_index == FirstIndex(pressure_values, max_pressure)
        last_pressure == pressure_values[n]
        slope_to_min == Frac((last_pressure - min_pressure) * (60 \div time_interval_minutes), n - min_index)
        slope_to_max == Frac((last_pressure - max_pressure) * (60 \div time_interval_minutes), n - max_index)
    IN  IF FracAbsGreater(slope_to_min, slope_to_max) THEN slope_to_min ELSE slope_to_max

\* The classification with the steady band closed at -0.5.
TrendOfSlopeSteadyClosed(slope) ==
    IF slope.n >= 20 * slope.d THEN "rising_fast"
    ELSE IF slope.n >= 5 * slope.d THEN "rising"
    ELSE IF slope.n >= -5 * slope.d THEN "steady"
    ELSE IF slope.n > -20 * slope.d THEN "falling"
    ELSE IF slope.n > -40 * slope.d THEN "falling_fast"
    ELSE "plummeting"

\* "Determine the trend, looking at the slope" (thresholds 2.0, 0.5, -0.5, -2.0, -4.0)
TrendOfSlope(slope) ==
    IF slope.n >= 20 * slope.d THEN "rising_fast"
    ELSE IF slope.n >= 5 * slope.d THEN "rising"
    ELSE IF slope.n > -5 * slope.d THEN "steady"
    ELSE IF slope.n > -20 * slope.d THEN "falling"
    ELSE IF slope.n > -40 * slope.d THEN "falling_fast"
    ELSE "plummeting"

\* the sign put in the analysis text: round(slope, 1) > 0, round(slope, 2) < 0
SlopeSign(slope) ==
    IF 2 * slope.n >= slope.d THEN "+"
    ELSE IF 20 * slope.n <= -slope.d THEN "-"
    ELSE "+-"

\* A return of three values: (trend, pressure, count)
TrendResult3(trend, pressure, count) == [called |-> TRUE, raised |-> FALSE, values |-> 3, trend |-> trend, second |-> pressure, third |-> count]

\* pressure_values[0] of an empty list
TrendRaised == [called |-> TRUE, raised |-> TRUE]

\* history is [present, states], current_state a raw value (None: the entity has no state)
determine_pressure_trend(history, current_state, pressure_history_hours) ==
    LET num_intervals == NumIntervals(pressure_history_hours)
        data_points == SortedByLastChanged(history.states)
        kept == SelectReadings(data_points, 1, <<>>, <<>>, num_intervals)
        fit == LineFit(kept.timestamps, kept.pressure_values)
        ucurve == DeviationTooLarge(fit)
        slope == IF ucurve THEN UCurveSlope(kept.pressure_values)
                 ELSE Frac(fit.num * (60 \div time_interval_minutes), fit.den)
        trend == TrendOfSlope(slope)
    IN  IF ~history.present
        THEN (IF ~IsNone(current_state)
              THEN TrendResult3("learning", safe_float(current_state), 0)
              ELSE TrendResult3("steady", 0, 0))
        ELSE IF Len(kept.pressure_values) < 2
        THEN (IF kept.pressure_values = <<>> THEN TrendRaised
              ELSE TrendResult3("learning", kept.pressure_values[1], 1))
        ELSE [called |-> TRUE, raised |-> FALSE, values |-> 6,
              trend |-> trend,
              slope |-> slope,
              analysis |-> <<DTrend(trend), SlopeSign(slope)>>,
              hist_pressure |-> Len(history.states),
              method_used |-> IF ucurve THEN "U-curve" ELSE "Straight-line",
              pressure_values |-> kept.pressure_values,
              timestamps |-> kept.timestamps]

MaxSamples == 4
SampleTimes == {0, 14, 15, 30, 45, 60}
SampleStates == {Bad, Num(10125), Num(10130), Num(10135)}
\* the recorder hands the states back in time order, and no empty list
\* the time-ordered sequences of n sample times
OrderedTimes(n) == {ts \in [1..n -> SampleTimes] : \A i \in 1..(n - 1) : ts[i] <= ts[i + 1]}
\* the history with the sample times ts and the states vs
HistoryOf(ts, vs) == [present |-> TRUE, states |-> [i \in 1..Len(ts) |-> [last_changed |-> ts[i], state |-> vs[i]]]]
NoHistory == [present |-> FALSE, states |-> <<>>]
\* a one-hour window that starts at minute 14, off the 15-minute grid, with
\* one sample in each of the five slots it touches
FullWindowTimes == <<14, 15, 30, 45, 60>>
CurrentStates == {None, Bad, Num(10130)}
HistoryHours == {Bad, Num(1)}
TrendInput(history, current_state, pressure_history_hours) == [called |-> TRUE, history |-> history, current_state |-> current_state, pressure_history_hours |-> pressure_history_hours]

\* Either there is no history, or a time-ordered history of 1..MaxSamples
\* samples, or a sample in every slot of a one-hour window; the current state
\* is read only when there is no history.
InitTrend ==
    /\ \/ \E cs \in CurrentStates, hrs \in HistoryHours : ptIn = TrendInput(NoHistory, cs, hrs)
       \/ \E n \in 1..MaxSamples : \E ts \in OrderedTimes(n), vs \in [1..n -> SampleStates], hrs \in HistoryHours :
             ptIn = TrendInput(HistoryOf(ts, vs), Num(10130), hrs)
       \/ \E vs \in [1..Len(FullWindowTimes) -> SampleStates] :
             ptIn = TrendInput(HistoryOf(FullWindowTimes, vs), Num(10130), Num(1))
    /\ ptOut = NotRun
    /\ LowIdle /\ ForecastIdle /\ FogIdle /\ UpdateIdle /\ RecheckIdle /\ WindIdle /\ EntriesIdle

PressureTrend ==
    /\ ptIn # NotRun /\ ptOut = NotRun
    /\ ptOut' = determine_pressure_trend(ptIn.history, ptIn.current_state, ptIn.pressure_history_hours)
    /\ UNCHANGED <<ptIn, lowVars, zfVars, fogVars, updVars, schedVars, wdVars, entVars>>

NextTrend == PressureTrend

SpecTrend == InitTrend /\ [][NextTrend]_vars

(***************************************************************************)
(* Claims about determine_pressure_trend (SpecTrend)                       *)
(***************************************************************************)

\* The samples of a history whose state parses as a number.
RECURSIVE UsableStates(_)
UsableStates(states) ==
    IF states = <<>> THEN <<>>
    ELSE (IF states[1].state.k = "num" THEN <<states[1]>> ELSE <<>>) \o UsableStates(Tail(states))

\* The number of distinct 15-minute slots that hold a usable sample.
UsablePoints(history) == Cardinality({rounded_time(st.last_changed) : st \in {UsableStates(history.states)[i] : i \in 1..Len(UsableStates(history.states))}})

\* C4: for every pressure history with fewer than 2 usable points after
\* resampling (an empty history and no history at all included),
\* determine_pressure_trend returns "learning" as its trend, never a
\* classification of a rate and never an exception.
C4_LearningBelowTwoPoints ==
    (ptOut.called /\ UsablePoints(ptIn.history) < 2) =>
        /\ ~ptOut.raised
        /\ ptOut.trend = "learning"

\* The readings the resampling loop keeps of the history in ptIn.
KeptReadings == SelectReadings(SortedByLastChanged(ptIn.history.states), 1, <<>>, <<>>, NumIntervals(ptIn.pressure_history_hours))

\* The positions of the history's samples that fall in the slot starting at t.
SlotSamples(t) == {i \in 1..Len(ptIn.history.states) : rounded_time(ptIn.history.states[i].last_changed) = t}

\* C11: a history sample whose value cannot be parsed as a number contributes
\* no point to the trend fit: every fitted point is the value of a parseable
\* sample of its slot, never 0 or another filler.
C11_UnparseableDropped ==
    (ptOut.called /\ ~ptOut.raised /\ ptOut.values = 6) =>
        \A i \in 1..Len(ptOut.pressure_values) :
            \E j \in SlotSamples(ptOut.timestamps[i]) :
                /\ ptIn.history.states[j].state.k = "num"
                /\ ptIn.history.states[j].state.v = ptOut.pressure_values[i]

\* What C12 has in common in both readings: the kept timestamps lie on the
\* 15-minute grid and are strictly increasing (so at most one per slot).
KeptOnePerSlot ==
    /\ Len(KeptReadings.timestamps) = Len(KeptReadings.pressure_values)
    /\ \A i \in 1..Len(KeptReadings.timestamps) : KeptReadings.timestamps[i] % time_interval_minutes = 0
    /\ \A i \in 1..(Len(KeptReadings.timestamps) - 1) : KeptReadings.timestamps[i] < KeptReadings.timestamps[i + 1]

\* C12 as stated: one sample per 15-minute slot, the kept sample of a slot is
\* the latest one observed in that slot, kept timestamps strictly increasing,
\* at most window_hours x 4 samples kept.
C12_KeepsLatestPerSlot ==
    (ptOut.called /\ ptIn.history.present) =>
        /\ KeptOnePerSlot
        /\ \A i \in 1..Len(KeptReadings.timestamps) :
              LET last == CHOOSE j \in SlotSamples(KeptReadings.timestamps[i]) : \A k \in SlotSamples(KeptReadings.timestamps[i]) : k <= j
              IN  KeptReadings.pressure_values[i] = safe_float(ptIn.history.states[last].state)
        /\ Len(KeptReadings.pressure_values) <= NumIntervals(ptIn.pressure_history_hours)

\* C12 (amended): one sample per 15-minute slot, the kept sample of a slot is
\* the first one observed in that slot (converted by safe_float), kept
\* timestamps strictly increasing, and at most window_hours x 4 samples are
\* kept, but always one when the history is not empty.
C12_KeepsFirstPerSlot ==
    (ptOut.called /\ ptIn.history.present) =>
        /\ KeptOnePerSlot
        /\ \A i \in 1..Len(KeptReadings.timestamps) :
              LET first == CHOOSE j \in SlotSamples(KeptReadings.timestamps[i]) : \A k \in SlotSamples(KeptReadings.timestamps[i]) : j <= k
              IN  KeptReadings.pressure_values[i] = safe_float(ptIn.history.states[first].state)
        /\ Len(KeptReadings.pressure_values) <= Max2(1, NumIntervals(ptIn.pressure_history_hours))
        /\ (ptOut.values = 6 => ptOut.pressure_values = KeptReadings.pressure_values)

\* A fit over two slots where the first slot held two different readings.
C12_Witness ==
    /\ ptOut.called /\ ptOut.values = 6
    /\ Len(ptIn.history.states) = 3
    /\ ptIn.history.states[1] = [last_changed |-> 0, state |-> Num(10125)]
    /\ ptIn.history.states[2] = [last_changed |-> 14, state |-> Num(10135)]
    /\ ptIn.history.states[3].last_changed = 15
    /\ ptOut.pressure_values[1] = 10125
    /\ ptOut.timestamps = <<0, 15>>

\* rate >= bound and rate > bound for the fraction rate and a bound in tenths
RateAtLeast(rate, bound) == rate.n >= bound * rate.d
RateAbove(rate, bound) == rate.n > bound * rate.d

\* C13: the rate per hour is classified with the boundaries as specified:
\* >= 2.0 rising_fast, 0.5 <= rate < 2.0 rising, -0.5 < rate < 0.5 steady,
\* -2.0 < rate <= -0.5 falling, -4.0 < rate <= -2.0 falling_fast and
\* rate <= -4.0 plummeting; every rate gets exactly one bucket.
C13_BucketBoundaries ==
    (ptOut.called /\ ~ptOut.raised /\ ptOut.values = 6) =>
        LET r == ptOut.slope
        IN  /\ ptOut.trend \in TrendBuckets
            /\ ptOut.trend = "rising_fast" <=> RateAtLeast(r, 20)
            /\ ptOut.trend = "rising" <=> (RateAtLeast(r, 5) /\ ~RateAtLeast(r, 20))
            /\ ptOut.trend = "steady" <=> (RateAbove(r, -5) /\ ~RateAtLeast(r, 5))
            /\ ptOut.trend = "falling" <=> (RateAbove(r, -20) /\ ~RateAbove(r, -5))
            /\ ptOut.trend = "falling_fast" <=> (RateAbove(r, -40) /\ ~RateAbove(r, -20))
            /\ ptOut.trend = "plummeting" <=> ~RateAbove(r, -40)

\* A fit whose rate is exactly -0.5 hPa/hr and is classified as falling.
C13_Witness ==
    /\ ptOut.called /\ ~ptOut.raised /\ ptOut.values = 6
    /\ ptOut.slope.n = -5 * ptOut.slope.d
    /\ ptOut.trend = "falling"

\* C29: the resampled series that determine_pressure_trend fits always
\* includes the 15-minute slot of the most recent history sample: the cap of
\* window_hours x 4 kept samples never cuts off the newest readings.
C29_NewestSlotKept ==
    (ptOut.called /\ ~ptOut.raised /\ ptOut.values = 6 /\ ptIn.pressure_history_hours.k = "num") =>
        \E i \in 1..Len(ptOut.timestamps) :
            ptOut.timestamps[i] = rounded_time(ptIn.history.states[Len(ptIn.history.states)].last_changed)

(***************************************************************************)
(* wind_analysis.py: determine_wind_direction                              *)
(*                                                                         *)
(* The returned text is kept as the sequence of the words the f-string     *)
(* joins: <<bearing, change, "towards", cardinal, speed>>, the speed left  *)
(* out when it is empty.                                                   *)
(***************************************************************************)
compass_directions == <<"N", "N-NE", "NE", "E-NE", "E", "E-SE", "SE", "S-SE", "S", "S-SW", "SW", "W-SW", "W", "W-NW", "NW", "N-NW">>

\* The bearing one step clockwise in the 16-point rose.
VeeringMapNeighbour(wind_direction) ==
    compass_directions[(IndexOf(compass_directions, wind_direction) % 16) + 1]

\* "Moving clockwise"
veering_map(wind_direction) ==
    CASE wind_direction = "N" -> "E"
      [] wind_direction = "N-NE" -> "E"
      [] wind_direction = "NE" -> "E"
      [] wind_direction = "E-NE" -> "E"
      [] wind_direction = "E" -> "S"
      [] wind_direction = "E-SE" -> "S"
      [] wind_direction = "SE" -> "S"
      [] wind_direction = "S-SE" -> "S"
      [] wind_direction = "S" -> "W"
      [] wind_direction = "S-SW" -> "W"
      [] wind_direction = "SW" -> "W"
      [] wind_direction = "W-SW" -> "W"
      [] wind_direction = "W" -> "N"
      [] wind_direction = "W-NW" -> "N"
      [] wind_direction = "NW" -> "N"
      [] wind_direction = "N-NW" -> "N"

\* "Moving counterclockwise"
backing_map(wind_direction) ==
    CASE wind_direction = "N" -> "W"
      [] wind_direction = "N-NE" -> "N"
      [] wind_direction = "NE" -> "N"
      [] wind_direction = "E-NE" -> "N"
      [] wind_direction = "E" -> "N"
      [] wind_direction = "E-SE" -> "E"
      [] wind_direction = "SE" -> "E"
      [] wind_direction = "S-SE" -> "E"
      [] wind_direction = "S" -> "E"
      [] wind_direction = "S-SW" -> "S"
      [] wind_direction = "SW" -> "S"
      [] wind_direction = "W-SW" -> "S"
      [] wind_direction = "W" -> "S"
      [] wind_direction = "W-NW" -> "W"
      [] wind_direction = "NW" -> "W"
      [] wind_direction = "N-NW" -> "W"

WindChange(pressure_trend) ==
    IF pressure_trend \in {"plummeting", "falling_fast"} THEN "backing"
    ELSE IF pressure_trend \in {"rising_fast"} THEN "veering"
    ELSE IF pressure_trend = "rising" THEN "veering"
    ELSE IF pressure_trend = "falling" THEN "backing"
    ELSE "steady"

WindChangeSpeed(pressure_trend) ==
    IF pressure_trend \in {"plummeting", "falling_fast"} THEN "fast"
    ELSE IF pressure_trend \in {"rising_fast"} THEN "fast"
    ELSE ""

\* f"{a} {b} towards {c} {speed}".strip()
WindText(wind_direction, wind_change, future_direction_cardinal, wind_change_speed) ==
    <<wind_direction, wind_change, "towards", future_direction_cardinal>> \o (IF wind_change_speed = "" THEN <<>> ELSE <<wind_change_speed>>)

determine_wind_direction(wind_direction, pressure_trend) ==
    LET wind_change == WindChange(pressure_trend)
        wind_change_speed == WindChangeSpeed(pressure_trend)
    IN  IF IndexOf(compass_directions, wind_direction) = 0
        THEN [called |-> TRUE, estimated_wind_direction |-> <<"Invalid wind direction">>]
        ELSE IF wind_change = "veering"
        THEN [called |-> TRUE, estimated_wind_direction |-> WindText(wind_direction, wind_change, veering_map(wind_direction), wind_change_speed)]
        ELSE IF wind_change = "backing"
        THEN [called |-> TRUE, estimated_wind_direction |-> WindText(wind_direction, wind_change, backing_map(wind_direction), wind_change_speed)]
        ELSE [called |-> TRUE, estimated_wind_direction |-> <<wind_direction, wind_change>>]

\* The 16 bearings and strings that are none of them.
WindDirectionInputs == {compass_directions[i] : i \in 1..16} \cup {"NNE", "n", "unknown", ""}
\* The buckets determine_pressure_trend returns, "learning" included.
PressureTrendInputs == TrendBuckets \cup {"learning"}

InitWind ==
    /\ wdIn \in [called : {TRUE}, wind_direction : WindDirectionInputs, pressure_trend : PressureTrendInputs]
    /\ wdOut = NotRun
    /\ LowIdle /\ ForecastIdle /\ FogIdle /\ TrendIdle /\ UpdateIdle /\ RecheckIdle /\ EntriesIdle

\* One call of determine_wind_direction on the chosen arguments.
WindDirection ==
    /\ wdIn # NotRun /\ wdOut = NotRun
    /\ wdOut' = determine_wind_direction(wdIn.wind_direction, wdIn.pressure_trend)
    /\ UNCHANGED <<wdIn, lowVars, zfVars, fogVars, ptVars, updVars, schedVars, entVars>>

NextWind == WindDirection

SpecWind == InitWind /\ [][NextWind]_vars

(***************************************************************************)
(* Claims about determine_wind_direction (SpecWind)                        *)
(***************************************************************************)
ValidBearing == IndexOf(compass_directions, wdIn.wind_direction) # 0
Text == wdOut.estimated_wind_direction
CompassIndex == IndexOf(compass_directions, wdIn.wind_direction)

\* What C22 says of the rotation and its speed, common to both readings.
RotationAsClaimed ==
    /\ wdIn.pressure_trend \in {"falling", "falling_fast", "plummeting"} => Text[2] = "backing"
    /\ wdIn.pressure_trend \in {"rising", "rising_fast"} => Text[2] = "veering"
    /\ wdIn.pressure_trend = "steady" => Text = <<wdIn.wind_direction, "steady">>
    /\ wdIn.pressure_trend \in {"plummeting", "falling_fast", "rising_fast"} => (Len(Text) = 5 /\ Text[5] = "fast")
    /\ wdIn.pressure_trend \in {"falling", "rising"} => Len(Text) = 4
    /\ Text[1] = wdIn.wind_direction

\* C22 (as claimed): for every valid 16-point bearing the rotation is backing
\* for falling, falling_fast and plummeting and veering for rising and
\* rising_fast, fast exactly for plummeting, falling_fast and rising_fast,
\* steady leaves the bearing unchanged, and the projected bearing is the
\* clockwise (veering) or counter-clockwise (backing) neighbour of the current
\* bearing; any other input yields "Invalid wind direction".
C22_ProjectsNeighbour ==
    (wdOut.called /\ wdIn.pressure_trend \in TrendBuckets) =>
        IF ValidBearing
        THEN /\ RotationAsClaimed
             /\ Text[2] = "veering" => Text[4] = compass_directions[(CompassIndex % 16) + 1]
             /\ Text[2] = "backing" => Text[4] = compass_directions[((CompassIndex + 14) % 16) + 1]
        ELSE Text = <<"Invalid wind direction">>

\* The cardinal points N, E, S, W sit at every fourth place of the rose; the
\* next one strictly clockwise, and strictly counter-clockwise, of place i.
NextCardinalClockwise(i) == compass_directions[((((i - 1) \div 4) + 1) % 4) * 4 + 1]
NextCardinalCounterClockwise(i) == compass_directions[((((i + 14) % 16) \div 4) * 4) + 1]

\* C22 (amended): rotation and speed as claimed; the projected direction is
\* the next cardinal point (N, E, S or W) strictly clockwise of the current
\* bearing when veering and strictly counter-clockwise when backing; any
\* other input yields "Invalid wind direction".
C22_ProjectsNextCardinal ==
    (wdOut.called /\ wdIn.pressure_trend \in TrendBuckets) =>
        IF ValidBearing
        THEN /\ RotationAsClaimed
             /\ Text[2] = "veering" => Text[4] = NextCardinalClockwise(CompassIndex)
             /\ Text[2] = "backing" => Text[4] = NextCardinalCounterClockwise(CompassIndex)
        ELSE Text = <<"Invalid wind direction">>

\* N-NE with rising_fast pressure: "N-NE veering towards E fast".
C22_Witness ==
    /\ wdOut.called
    /\ wdIn.wind_direction = "N-NE" /\ wdIn.pressure_trend = "rising_fast"
    /\ wdOut.estimated_wind_direction = <<"N-NE", "veering", "towards", "E", "fast">>

(***************************************************************************)
(* __init__.py and sensor.py: config entries and the force_update service  *)
(*                                                                         *)
(* A sensor is [entry, id]: the config entry it was created for and the    *)
(* number of the creation, so that the sensor of a reloaded entry is a     *)
(* different object from the one created before.                           *)
(***************************************************************************)
\* Sensors created over the life of the Home Assistant instance.
MaxCreated == 3

ConfigEntries == {"entry1", "entry2"}

IsSetUp(entry) == \E sensor \in loaded : sensor.entry = entry

\* async_setup_entry (__init__.py, forwarded to sensor.py): create the
\* sensor, append it to hass.data[DOMAIN]["entities"], register the service
\* on the first call.
SetupEntry(entry) ==
    /\ ~IsSetUp(entry)
    /\ created < MaxCreated
    /\ LET sensor == [entry |-> entry, id |-> created + 1]
       IN  /\ entities' = Append(entities, sensor)
           /\ loaded' = loaded \cup {sensor}
    /\ created' = created + 1
    /\ service_registered' = TRUE
    /\ UNCHANGED targets

\* async_unload_entry: the platform unloads the entry's sensor and
\* hass.data[DOMAIN] drops the entry's data; "entities" is left as it is.
UnloadEntry(entry) ==
    /\ IsSetUp(entry)
    /\ loaded' = {sensor \in loaded : sensor.entry # entry}
    /\ UNCHANGED <<entities, created, service_registered, targets>>

\* async_handle_force_update_service with entity_id absent or "all":
\* targets = list(entities), and async_update runs on each target.
ForceUpdateAll ==
    /\ service_registered
    /\ targets' = entities
    /\ UNCHANGED <<entities, loaded, created, service_registered>>

InitEntries == LowIdle /\ ForecastIdle /\ FogIdle /\ TrendIdle /\ UpdateIdle /\ RecheckIdle /\ WindIdle /\ EntriesIdle

NextEntries ==
    \/ \E entry \in ConfigEntries : SetupEntry(entry) /\ UNCHANGED <<lowVars, zfVars, fogVars, ptVars, updVars, schedVars, wdVars>>
    \/ \E entry \in ConfigEntries : UnloadEntry(entry) /\ UNCHANGED <<lowVars, zfVars, fogVars, ptVars, updVars, schedVars, wdVars>>
    \/ ForceUpdateAll /\ UNCHANGED <<lowVars, zfVars, fogVars, ptVars, updVars, schedVars, wdVars>>

SpecEntries == InitEntries /\ [][NextEntries]_vars

(***************************************************************************)
(* Claims about config entries and force_update (SpecEntries)              *)
(***************************************************************************)
\* C30: after any sequence of setups and unloads of entries, a force_update
\* call with entity_id absent or "all" runs async_update only on the sensors
\* of entries that are currently loaded.
C30_ForceUpdateOnlyLoaded ==
    [][ForceUpdateAll => \A i \in 1..Len(targets') : targets'[i] \in loaded]_vars

(***************************************************************************)
(* sensor.py: the alert level of one update cycle (Zambretti.async_update) *)
(*                                                                         *)
(* A cycle first checks the required sensors, then runs the analyses in    *)
(* the order of the handler; each analysis hands back an alert level in    *)
(* t_alert_level and the handler keeps the maximum in alert_level.  The    *)
(* analyses themselves are modelled by the alert levels and wind estimates *)
(* they can return.                                                        *)
(***************************************************************************)
MaxAttempts == 2
MaxEstMaxWind == 56

\* alert_level of determine_temperature_effect: 0, 3 or 5
TemperatureAlertLevels == {0, 30, 50}
\* alert_level of determine_fog_chance: 0, or 3 above 90 percent
FogAlertLevels == {0, 30}
\* alert_level of zambretti_forecast: max(cell baseline 0..5, 0 + temp_modifier)
ForecastAlertLevels == {0, 10, 20, 30, 40, 50}
\* number of values determine_pressure_trend returns: 3 while learning, else 6
PressureTrendArity == {3, 6}

\* The descriptions of the whole-number levels only.
AlertDescWholeLevels(level) ==
    CASE level = 0  -> "Fine day."
      [] level = 10 -> "No worries."
      [] level = 20 -> "Mild day."
      [] level = 30 -> "Caution. Unstable conditions, moderate winds, squalls possible."
      [] level = 40 -> "Alert! Strong winds, rough seas, storm risk increasing."
      [] level = 50 -> "Alarm! Heavy storm, gale-force winds, dangerous sailing conditions."
      [] OTHER -> ""

alert_desc(level) ==
    CASE level = 0  -> "Fine day."
      [] level = 10 -> "No worries."
      [] level = 20 -> "Mild day."
      [] level = 21 -> "Mild day. Wind picking up a bit, possibly up to 25kn."
      [] level = 22 -> "Mild day. Wind picking up, possibly up to 30kn."
      [] level = 30 -> "Caution. Unstable conditions, moderate winds, squalls possible."
      [] level = 31 -> "Caution. Wind picking up, possibly up to 40kn, squalls possible."
      [] level = 40 -> "Alert! Strong winds, rough seas, storm risk increasing."
      [] level = 41 -> "Alert! Rough seas, storm risk, strong winds possibly up to 50kn."
      [] level = 50 -> "Alarm! Heavy storm, gale-force winds, dangerous sailing conditions."
      [] level = 51 -> "Alarm! Heavy storm, gale-force winds possibly more than 50kn."
      [] OTHER -> ""

\* The wind ladder without its "only if it raises" tests.
WindAlertUnguarded(level, wind) ==
    IF wind > 50 THEN 51
    ELSE IF wind > 40 THEN 41
    ELSE IF wind > 30 THEN 31
    ELSE IF wind > 25 THEN 22
    ELSE IF wind > 20 THEN 21
    ELSE level

\* "Update Alert Level Based on Wind Speed"
WindAlert(level, wind) ==
    IF wind > 50 THEN (IF level <= 50 THEN 51 ELSE level)
    ELSE IF wind > 40 THEN (IF level <= 40 THEN 41 ELSE level)
    ELSE IF wind > 30 THEN (IF level <= 30 THEN 31 ELSE level)
    ELSE IF wind > 25 THEN (IF level <= 20 THEN 22 ELSE level)
    ELSE IF wind > 20 THEN (IF level <= 20 THEN 21 ELSE level)
    ELSE level

\* An async_update run by the timer tick (async_time_based_update), by
\* force_update or when the entity is added, with sensors_valid false:
\* count the attempt, schedule a re-check in 10 seconds and return.
UpdWaitForSensors ==
    /\ pc \in {"idle", "done"}
    /\ ~sensors_valid
    /\ counter < MaxAttempts
    /\ counter' = counter + 1
    /\ pending' = pending + 1
    /\ UNCHANGED <<pc, alert_level, t_alert_level, estimated_max_wind_speed, seen, attributes, sensors_valid>>

\* A scheduled re-check fires and runs async_update with sensors_valid still
\* false: count the attempt and schedule the next re-check.
UpdRecheckWaits ==
    /\ pc \in {"idle", "done"}
    /\ pending > 0
    /\ ~sensors_valid
    /\ counter < MaxAttempts
    /\ counter' = counter + 1
    /\ pending' = (pending - 1) + 1
    /\ UNCHANGED <<pc, alert_level, t_alert_level, estimated_max_wind_speed, seen, attributes, sensors_valid>>

\* sensors_valid(required_sensors) is true: "set starting point for alert level"
UpdStart ==
    /\ pc \in {"idle", "done"}
    /\ sensors_valid
    /\ pc' = "pressure"
    /\ alert_level' = 0 /\ t_alert_level' = 0
    /\ estimated_max_wind_speed' = 0
    /\ seen' = NoAlerts
    /\ UNCHANGED <<counter, attributes, sensors_valid, pending>>

\* A scheduled re-check fires with sensors_valid true: the cycle starts and
\* no further re-check is scheduled.
UpdRecheckStart ==
    /\ pc \in {"idle", "done"}
    /\ pending > 0
    /\ sensors_valid
    /\ pending' = pending - 1
    /\ pc' = "pressure"
    /\ alert_level' = 0 /\ t_alert_level' = 0
    /\ estimated_max_wind_speed' = 0
    /\ seen' = NoAlerts
    /\ UNCHANGED <<counter, attributes, sensors_valid>>

\* The required sensors come on-line or drop out between two runs of the
\* handler (sensors_valid is read at the start of a run only).
SensorsChange ==
    /\ pc \in {"idle", "done"}
    /\ sensors_valid' = ~sensors_valid
    /\ UNCHANGED <<updVars, pending>>

\* "Analyze Atmospheric Pressure": the handler unpacks six values; a
\* three-value result of determine_pressure_trend makes the unpacking raise
\* and the cycle ends without publishing.
UpdPressure ==
    /\ pc = "pressure"
    /\ \E n \in PressureTrendArity : pc' = IF n = 6 THEN "temperature" ELSE "idle"
    /\ UNCHANGED <<counter, alert_level, t_alert_level, estimated_max_wind_speed, seen, attributes>>

\* "Analyze Temperature Trends"
UpdTemperature ==
    /\ pc = "temperature"
    /\ \E t \in TemperatureAlertLevels :
          /\ t_alert_level' = t
          /\ alert_level' = Max2(alert_level, t)
          /\ seen' = [seen EXCEPT !.temperature = t]
    /\ pc' = "fog"
    /\ UNCHANGED <<counter, estimated_max_wind_speed, attributes>>

\* "Calculate Fog Probability"
UpdFog ==
    /\ pc = "fog"
    /\ \E t \in FogAlertLevels :
          /\ t_alert_level' = t
          /\ alert_level' = Max2(alert_level, t)
          /\ seen' = [seen EXCEPT !.fog = t]
    /\ pc' = "forecast"
    /\ UNCHANGED <<counter, estimated_max_wind_speed, attributes>>

\* "Generate Forecast": the call returns a forecast
UpdForecast ==
    /\ pc = "forecast"
    /\ \E t \in ForecastAlertLevels, w \in 0..MaxEstMaxWind :
          /\ t_alert_level' = t
          /\ estimated_max_wind_speed' = w
          /\ alert_level' = Max2(alert_level, t)
          /\ seen' = [seen EXCEPT !.forecast = t]
    /\ pc' = "wind"
    /\ UNCHANGED <<counter, attributes>>

\* "Generate Forecast": the call passes six arguments; against the
\* five-parameter zambretti_forecast it raises and the cycle ends there.
UpdForecastRaises ==
    /\ pc = "forecast"
    /\ pc' = "idle"
    /\ UNCHANGED <<counter, alert_level, t_alert_level, estimated_max_wind_speed, seen, attributes>>

\* "Update Alert Level Based on Wind Speed"
UpdWind ==
    /\ pc = "wind"
    /\ alert_level' = WindAlert(alert_level, estimated_max_wind_speed)
    /\ pc' = "publish"
    /\ UNCHANGED <<counter, t_alert_level, estimated_max_wind_speed, seen, attributes>>

\* "Update Metadata & Finalize"
UpdPublish ==
    /\ pc = "publish"
    /\ attributes' = [alert_level |-> alert_level, alert |-> alert_desc(alert_level), fully_started |-> TRUE]
    /\ pc' = "done"
    /\ UNCHANGED <<counter, alert_level, t_alert_level, estimated_max_wind_speed, seen>>

InitUpdate == LowIdle /\ ForecastIdle /\ FogIdle /\ TrendIdle /\ UpdateIdle /\ RecheckIdle /\ WindIdle /\ EntriesIdle

NextUpdate ==
    \/ UpdWaitForSensors /\ UNCHANGED <<lowVars, zfVars, fogVars, ptVars, wdVars, entVars>>
    \/ UpdRecheckWaits /\ UNCHANGED <<lowVars, zfVars, fogVars, ptVars, wdVars, entVars>>
    \/ UpdStart /\ UNCHANGED <<lowVars, zfVars, fogVars, ptVars, wdVars, entVars>>
    \/ UpdRecheckStart /\ UNCHANGED <<lowVars, zfVars, fogVars, ptVars, wdVars, entVars>>
    \/ SensorsChange /\ UNCHANGED <<lowVars, zfVars, fogVars, ptVars, wdVars, entVars>>
    \/ UpdPressure /\ UNCHANGED <<lowVars, zfVars, fogVars, ptVars, schedVars, wdVars, entVars>>
    \/ UpdTemperature /\ UNCHANGED <<lowVars, zfVars, fogVars, ptVars, schedVars, wdVars, entVars>>
    \/ UpdFog /\ UNCHANGED <<lowVars, zfVars, fogVars, ptVars, schedVars, wdVars, entVars>>
    \/ UpdForecast /\ UNCHANGED <<lowVars, zfVars, fogVars, ptVars, schedVars, wdVars, entVars>>
    \/ UpdForecastRaises /\ UNCHANGED <<lowVars, zfVars, fogVars, ptVars, schedVars, wdVars, entVars>>
    \/ UpdWind /\ UNCHANGED <<lowVars, zfVars, fogVars, ptVars, schedVars, wdVars, entVars>>
    \/ UpdPublish /\ UNCHANGED <<lowVars, zfVars, fogVars, ptVars, schedVars, wdVars, entVars>>

SpecUpdate == InitUpdate /\ [][NextUpdate]_vars

(***************************************************************************)
(* Claims about the alert level of an update cycle (SpecUpdate)            *)
(***************************************************************************)
Max3(a, b, c) == Max2(a, Max2(b, c))

\* The level of the wind band an estimated max wind speed falls in
\* (0 when the wind is in no band).
WindBand(wind) ==
    IF wind > 50 THEN 51
    ELSE IF wind > 40 THEN 41
    ELSE IF wind > 30 THEN 31
    ELSE IF wind > 25 THEN 22
    ELSE IF wind > 20 THEN 21
    ELSE 0

CycleBase == Max3(seen.forecast, seen.fog, seen.temperature)

\* C5: within one update cycle the alert level only ratchets up: once the
\* wind step has run, the level is at least the maximum of the forecast, fog
\* and temperature alert levels, and it is the level of the wind band exactly
\* when that is higher than this maximum, otherwise the maximum itself;
\* (3,0,0,55) gives 5.1 and (5,0,0,10) stays 5.  The level published at the
\* end of the cycle is that level.
C5_AlertOnlyRatchetsUp ==
    /\ pc \in {"fog", "forecast", "wind"} => alert_level >= Max2(seen.temperature, seen.fog)
    /\ pc \in {"publish", "done"} =>
          /\ alert_level >= CycleBase
          /\ alert_level = IF WindBand(estimated_max_wind_speed) > CycleBase
                           THEN WindBand(estimated_max_wind_speed)
                           ELSE CycleBase
          /\ (seen = [forecast |-> 30, fog |-> 0, temperature |-> 0]
                /\ estimated_max_wind_speed = 55) => alert_level = 51
          /\ (seen = [forecast |-> 50, fog |-> 0, temperature |-> 0]
                /\ estimated_max_wind_speed = 10) => alert_level = 50
    /\ pc = "done" => attributes.alert_level = alert_level

\* A finished cycle in which the wind band (4.1) is lower than the level the
\* analyses produced (5), so the threshold is not applied.
C5_Witness ==
    /\ pc = "done"
    /\ seen = [forecast |-> 50, fog |-> 0, temperature |-> 0]
    /\ estimated_max_wind_speed = 45
    /\ attributes.alert_level = 50

\* The levels alert_desc describes: 0, 1, 2, 2.1, 2.2, 3, 3.1, 4, 4.1, 5, 5.1.
DescribedLevels == {0, 10, 20, 21, 22, 30, 31, 40, 41, 50, 51}

\* C27: after every update cycle that runs to completion the published
\* alert_level is one of the described levels and the published alert
\* description is never the empty string.
C27_PublishedLevelDescribed ==
    pc = "done" =>
        /\ attributes.alert_level \in DescribedLevels
        /\ attributes.alert = alert_desc(attributes.alert_level)
        /\ attributes.alert # ""

\* A finished cycle that publishes the sub-level 2.2 with its description.
C27_Witness ==
    /\ pc = "done"
    /\ attributes.alert_level = 22
    /\ attributes.alert = "Mild day. Wind picking up, possibly up to 30kn."

\* C25: while required sensors stay unavailable at most one delayed re-check
\* of async_update is pending at any time, however many timer ticks and
\* force_update calls run async_update in the meantime.
C25_AtMostOneRecheckPending == pending <= 1

====
